---- MODULE Spec2Model ----
(***************************************************************************)
(* A model of Henri's orchestration loop (henri/agent.py), its permission  *)
(* engine (henri/permissions.py), the tool contract (henri/tools/base.py)  *)
(* and the hook composition of run_agent.                                  *)
(*                                                                         *)
(* Text is modelled as a sequence of tokens: a prompt answer is the        *)
(* sequence of its characters, a path is the sequence of its segments      *)
(* (an absolute path starts with the token "/"), a shell command is the    *)
(* sequence of its words.  A dict of arguments is a set of <<key, value>>  *)
(* pairs with at most one pair per key.                                    *)
(***************************************************************************)
EXTENDS Integers, Sequences, FiniteSets, TLC

VARIABLES
    \* PermissionManager: static configuration
    path_based, auto_allow_cwd, auto_allow, reject_prompts,
    \* run_agent: the hooks loaded, in the order of the command line
    loaded_hooks,
    \* PermissionManager: session state
    allowed_tools, allowed_bash_commands, allowed_paths, allow_all,
    \* the call PermissionManager._prompt_user is blocked on (NoCall when none)
    pending,
    \* the last completed PermissionManager.check
    lastCheck,
    \* the 'always' grants made by prompt answers: <<tool, scope kind, scope>>
    granted,
    \* Agent: the registry (self.tools), the log (self.messages), the position of
    \* chat, and its locals tool_calls, results and the index of the current call
    tools, messages, pc, tool_calls, results, idx,
    \* --max-turns as given on the command line (0: not given)
    max_turns,
    \* provider.stream requests made: in the run, and in the current chat
    nstream, turns,
    \* the ids of the calls whose tool.execute was invoked, in order
    executed,
    \* the files that exist, by canonical path, and the content of each
    files, disk,
    \* the last tool.execute: the tool, its arguments, the text returned, and
    \* the content of the files before it
    lastExec,
    \* Agent._status (the message of the spinner, "": None) and
    \* Agent._pondering_task ("none": None, "pending": created and asleep, "done")
    status, pondering_task,
    \* the pondering tasks created and neither done nor cancelled
    live_tasks,
    \* the stream loop of chat: the events the generator yields, how many the
    \* loop has consumed, and the local response_text
    stream_events, nevents, response_text,
    \* provider.stream: the backend class (self.name), the position of the
    \* generator ("none": not called, "open", "returned", "raised"), and the
    \* chunks consumed
    provider, spos, nchunks,
    \* in order: the StreamEvents the generator yielded, and the argument
    \* fragments and whole calls it consumed
    trace,
    \* the locals of stream: tool_call_builders and final_finish_reason
    \* (OpenAI-compatible), tool_calls (the others), current_tool_id, _name and
    \* _input as one record (Vertex, Bedrock)
    tool_call_builders, final_finish_reason, stream_calls, current_tool,
    \* the content block the backend has open ("": none), and the stop reason of
    \* the SDK's message snapshot (Vertex)
    open_block, final_message

cfgVars == <<path_based, auto_allow_cwd, auto_allow, reject_prompts, loaded_hooks>>
sessionVars == <<allowed_tools, allowed_bash_commands, allowed_paths, allow_all>>
pmVars == <<cfgVars, sessionVars, pending, lastCheck, granted>>
agentVars == <<tools, messages, pc, tool_calls, results, idx, max_turns, nstream, turns,
               executed, files, disk, lastExec>>
streamVars == <<provider, spos, nchunks, trace, tool_call_builders, final_finish_reason,
                stream_calls, current_tool, open_block, final_message>>
loopVars == <<pondering_task, live_tasks, stream_events, nevents, response_text>>
vars == <<pmVars, agentVars, streamVars, status, loopVars>>

-----------------------------------------------------------------------------
(* Tools: henri/tools/base.py and hooks/dafny.py                           *)

BashName == "bash"

ToolNames == {"bash", "read_file", "write_file", "edit_file", "grep", "web_fetch",
              "dafny_verify"}

\* Tool.requires_permission of each tool class
RequiresPermission(tool) ==
    CASE tool = "bash" -> TRUE
      [] tool = "read_file" -> FALSE
      [] tool = "write_file" -> TRUE
      [] tool = "edit_file" -> TRUE
      [] tool = "grep" -> FALSE
      [] tool = "web_fetch" -> TRUE
      [] tool = "dafny_verify" -> TRUE
      [] OTHER -> FALSE

DEFAULT_PATH_BASED == {"grep", "glob", "read_file", "write_file", "edit_file"}
DEFAULT_AUTO_ALLOW_CWD == {"grep", "glob", "read_file"}
DEFAULT_AUTO_ALLOW == {}

-----------------------------------------------------------------------------
(* dict helpers: call.args                                                 *)

Keys(args) == {p[1] : p \in args}

\* dict.get(key, default)
Get(args, key, default) ==
    IF key \in Keys(args) THEN (CHOOSE p \in args : p[1] = key)[2] ELSE default

-----------------------------------------------------------------------------
(* Paths: pathlib.Path(path).resolve() on a file system without symlinks   *)

\* the working directory, as its segments from the root, and Path.cwd()
Cwd == <<"w">>
CwdPath == <<"/">> \o Cwd

IsAbs(path) == Len(path) > 0 /\ path[1] = "/"

RECURSIVE Normalize(_, _)
Normalize(acc, rest) ==
    IF rest = <<>> THEN acc
    ELSE LET s == Head(rest) IN
         IF s = "." THEN Normalize(acc, Tail(rest))
         ELSE IF s = ".."
              THEN Normalize(IF acc = <<>> THEN acc ELSE SubSeq(acc, 1, Len(acc) - 1),
                             Tail(rest))
              ELSE Normalize(Append(acc, s), Tail(rest))

\* str(Path(path).resolve()): the canonical path, as its segments from the root
Resolve(path) ==
    IF IsAbs(path) THEN Normalize(<<>>, Tail(path)) ELSE Normalize(Cwd, path)

\* PurePath.is_relative_to
IsRelativeTo(p, base) == Len(base) <= Len(p) /\ SubSeq(p, 1, Len(base)) = base

-----------------------------------------------------------------------------
(* PermissionManager                                                       *)

_is_path_based(tool) == tool \in path_based
_is_auto_allow_cwd(tool) == tool \in auto_allow_cwd
_is_auto_allow(tool) == tool \in auto_allow
_is_path_within_cwd(path) == IsRelativeTo(Resolve(path), Resolve(CwdPath))

\* allowed_paths.get(tool, set())
AllowedPathsOf(tool) == IF tool \in DOMAIN allowed_paths THEN allowed_paths[tool] ELSE {}

\* ScopedAllow as it would be if any approved path of the tool allowed every path
ScopedAllow_AnyPath(tool, args) ==
    IF tool = BashName
    THEN Get(args, "command", <<>>) \in allowed_bash_commands
    ELSE IF _is_path_based(tool)
         THEN \/ AllowedPathsOf(tool) # {}
              \/ _is_auto_allow_cwd(tool) /\ _is_path_within_cwd(Get(args, "path", <<".">>))
         ELSE tool \in allowed_tools

\* ScopedAllow as it would be if approved paths were not kept per tool
ScopedAllow_AnyTool(tool, args) ==
    IF tool = BashName
    THEN Get(args, "command", <<>>) \in allowed_bash_commands
    ELSE IF _is_path_based(tool)
         THEN \/ Resolve(Get(args, "path", <<".">>))
                    \in UNION {allowed_paths[t] : t \in DOMAIN allowed_paths}
              \/ _is_auto_allow_cwd(tool) /\ _is_path_within_cwd(Get(args, "path", <<".">>))
         ELSE tool \in allowed_tools

\* ScopedAllow as it would be if an approved command allowed every command that
\* starts with it
ScopedAllow_CommandPrefix(tool, args) ==
    IF tool = BashName
    THEN \E c \in allowed_bash_commands : IsRelativeTo(Get(args, "command", <<>>), c)
    ELSE IF _is_path_based(tool)
         THEN \/ Resolve(Get(args, "path", <<".">>)) \in AllowedPathsOf(tool)
              \/ _is_auto_allow_cwd(tool) /\ _is_path_within_cwd(Get(args, "path", <<".">>))
         ELSE tool \in allowed_tools

\* ScopedAllow as it would be with three independent ifs instead of if/elif/elif
ScopedAllow_NoElif(tool, args) ==
    \/ tool = BashName /\ Get(args, "command", <<>>) \in allowed_bash_commands
    \/ /\ _is_path_based(tool)
       /\ \/ Resolve(Get(args, "path", <<".">>)) \in AllowedPathsOf(tool)
          \/ _is_auto_allow_cwd(tool) /\ _is_path_within_cwd(Get(args, "path", <<".">>))
    \/ tool \in allowed_tools

\* check, lines 82-98: the scoped session rules
ScopedAllow(tool, args) ==
    IF tool = BashName
    THEN Get(args, "command", <<>>) \in allowed_bash_commands
    ELSE IF _is_path_based(tool)
         THEN LET path == Get(args, "path", <<".">>)
                  resolved == Resolve(path)
              IN  \/ resolved \in AllowedPathsOf(tool)
                  \/ _is_auto_allow_cwd(tool) /\ _is_path_within_cwd(path)
         ELSE tool \in allowed_tools

\* AllowedWithoutPrompt as it would be without the allow_all test of lines 75-76
AllowedWithoutPrompt_NoAllowAll(tool, args) ==
    \/ ~RequiresPermission(tool)
    \/ _is_auto_allow(tool)
    \/ ScopedAllow(tool, args)

\* check, lines 72-98: TRUE when check returns True before reaching line 100
AllowedWithoutPrompt(tool, args) ==
    \/ ~RequiresPermission(tool)
    \/ allow_all
    \/ _is_auto_allow(tool)
    \/ ScopedAllow(tool, args)

\* the session state as one value
Session ==
    [allowed_tools |-> allowed_tools, allowed_bash_commands |-> allowed_bash_commands,
     allowed_paths |-> allowed_paths, allow_all |-> allow_all]

NoCall == [active |-> FALSE, tool |-> "", args |-> {}]
EmptySession ==
    [allowed_tools |-> {}, allowed_bash_commands |-> {}, allowed_paths |-> <<>>,
     allow_all |-> FALSE]
NoCheck ==
    [result |-> "none", tool |-> "", args |-> {}, prompted |-> FALSE, answer |-> <<>>,
     pre |-> EmptySession, gpre |-> {}]

\* str.strip() and str.lower() on the characters of a prompt answer
IsSpace(c) == c = " "

RECURSIVE LStrip(_)
LStrip(s) == IF s # <<>> /\ IsSpace(Head(s)) THEN LStrip(Tail(s)) ELSE s

RECURSIVE RStrip(_)
RStrip(s) ==
    IF s # <<>> /\ IsSpace(s[Len(s)]) THEN RStrip(SubSeq(s, 1, Len(s) - 1)) ELSE s

Strip(s) == RStrip(LStrip(s))

LowerChar(c) ==
    CASE c = "A" -> "a"
      [] c = "Y" -> "y"
      [] c = "N" -> "n"
      [] c = "O" -> "o"
      [] c = "E" -> "e"
      [] c = "S" -> "s"
      [] OTHER -> c

Lower(s) == [i \in 1..Len(s) |-> LowerChar(s[i])]

\* _prompt_user, lines 119-148: the branch one answer takes
PromptBranch(response) ==
    LET r == Lower(Strip(response)) IN
    IF r \in {<<"y">>, <<"y", "e", "s">>} THEN "yes"
    ELSE IF r \in {<<"n">>, <<"n", "o">>} THEN "no"
    ELSE IF r \in {<<"a">>, <<"a", "l", "w", "a", "y", "s">>} THEN "always"
    ELSE IF r = <<"A">> THEN "all"
    ELSE "again"

\* _prompt_user, lines 135-137: allowed_paths[tool].add(resolved)
AddPath(paths, tool, resolved) ==
    [t \in DOMAIN paths \cup {tool} |->
        IF t = tool THEN (IF tool \in DOMAIN paths THEN paths[tool] ELSE {}) \cup {resolved}
        ELSE paths[t]]

\* GrantAlways as it would be if every 'always' answer approved the whole tool
GrantAlways_WholeTool(tool, args) ==
    /\ allowed_tools' = allowed_tools \cup {tool}
    /\ UNCHANGED <<allowed_bash_commands, allowed_paths, allow_all>>

\* GrantAlways as it would be if the shell grant were assigned instead of added
GrantAlways_Overwrite(tool, args) ==
    IF tool = BashName
    THEN /\ allowed_bash_commands' = {Get(args, "command", <<>>)}
         /\ UNCHANGED <<allowed_tools, allowed_paths, allow_all>>
    ELSE IF _is_path_based(tool)
         THEN /\ allowed_paths' = AddPath(allowed_paths, tool, Resolve(Get(args, "path", <<".">>)))
              /\ UNCHANGED <<allowed_tools, allowed_bash_commands, allow_all>>
         ELSE /\ allowed_tools' = allowed_tools \cup {tool}
              /\ UNCHANGED <<allowed_bash_commands, allowed_paths, allow_all>>

\* _prompt_user, lines 127-142: the grant of an 'always' answer
GrantAlways(tool, args) ==
    IF tool = BashName
    THEN /\ allowed_bash_commands' = allowed_bash_commands \cup {Get(args, "command", <<>>)}
         /\ UNCHANGED <<allowed_tools, allowed_paths, allow_all>>
    ELSE IF _is_path_based(tool)
         THEN /\ allowed_paths' = AddPath(allowed_paths, tool, Resolve(Get(args, "path", <<".">>)))
              /\ UNCHANGED <<allowed_tools, allowed_bash_commands, allow_all>>
         ELSE /\ allowed_tools' = allowed_tools \cup {tool}
              /\ UNCHANGED <<allowed_bash_commands, allowed_paths, allow_all>>

\* the scope an 'always' answer names, as the prompt states it to the user
GrantScope(tool, args) ==
    IF tool = BashName THEN <<tool, "command", Get(args, "command", <<>>)>>
    ELSE IF tool \in path_based THEN <<tool, "path", Resolve(Get(args, "path", <<".">>))>>
    ELSE <<tool, "tool", <<>>>>

\* the record of a completed check: its result ("allow", "deny", or "raise"),
\* whether it prompted, the answer typed, and the session state and the grants
\* at its start
Completed(tool, args, result, prompted, answer) ==
    [result |-> result, tool |-> tool, args |-> args, prompted |-> prompted,
     answer |-> answer, pre |-> Session, gpre |-> granted]

\* CheckEnter as it would be without the reject_prompts test of lines 100-102
CheckEnter_PromptsAnyway(tool, args) ==
    /\ pending = NoCall
    /\ UNCHANGED <<cfgVars, sessionVars, granted>>
    /\ IF AllowedWithoutPrompt(tool, args)
       THEN /\ lastCheck' = Completed(tool, args, "allow", FALSE, <<>>)
            /\ pending' = NoCall
       ELSE /\ pending' = [active |-> TRUE, tool |-> tool, args |-> args]
            /\ UNCHANGED lastCheck

\* check, lines 70-104, up to the first prompt: returns True, returns False
\* (auto-deny), or blocks in _prompt_user
CheckEnter(tool, args) ==
    /\ pending = NoCall
    /\ UNCHANGED <<cfgVars, sessionVars, granted>>
    /\ IF AllowedWithoutPrompt(tool, args)
       THEN /\ lastCheck' = Completed(tool, args, "allow", FALSE, <<>>)
            /\ pending' = NoCall
       ELSE IF reject_prompts
            THEN /\ lastCheck' = Completed(tool, args, "deny", FALSE, <<>>)
                 /\ pending' = NoCall
            ELSE /\ pending' = [active |-> TRUE, tool |-> tool, args |-> args]
                 /\ UNCHANGED lastCheck

\* PromptAnswer as it would be if the answer 'always' were kept by adding the
\* tool to auto_allow
PromptAnswer_Configures(response) ==
    /\ pending # NoCall
    /\ UNCHANGED <<path_based, auto_allow_cwd, reject_prompts, loaded_hooks>>
    /\ LET tool == pending.tool
           args == pending.args
           branch == PromptBranch(response)
       IN  CASE branch = "yes" ->
                  /\ UNCHANGED <<auto_allow, sessionVars, granted>>
                  /\ lastCheck' = Completed(tool, args, "allow", TRUE, response)
                  /\ pending' = NoCall
             [] branch = "no" ->
                  /\ UNCHANGED <<auto_allow, sessionVars, granted>>
                  /\ lastCheck' = Completed(tool, args, "deny", TRUE, response)
                  /\ pending' = NoCall
             [] branch = "always" ->
                  /\ auto_allow' = auto_allow \cup {tool}
                  /\ UNCHANGED sessionVars
                  /\ granted' = granted \cup {GrantScope(tool, args)}
                  /\ lastCheck' = Completed(tool, args, "allow", TRUE, response)
                  /\ pending' = NoCall
             [] branch = "all" ->
                  /\ allow_all' = TRUE
                  /\ UNCHANGED <<auto_allow, allowed_tools, allowed_bash_commands,
                                 allowed_paths, granted>>
                  /\ lastCheck' = Completed(tool, args, "allow", TRUE, response)
                  /\ pending' = NoCall
             [] OTHER ->
                  UNCHANGED <<auto_allow, sessionVars, granted, lastCheck, pending>>

\* PromptAnswer as it would be if 'allow once' were remembered like 'always'
PromptAnswer_YesRemembers(response) ==
    /\ pending # NoCall
    /\ UNCHANGED cfgVars
    /\ LET tool == pending.tool
           args == pending.args
           branch == PromptBranch(response)
       IN  CASE branch \in {"yes", "always"} ->
                  /\ GrantAlways(tool, args)
                  /\ granted' = IF branch = "always"
                                THEN granted \cup {GrantScope(tool, args)} ELSE granted
                  /\ lastCheck' = Completed(tool, args, "allow", TRUE, response)
                  /\ pending' = NoCall
             [] branch = "no" ->
                  /\ UNCHANGED <<sessionVars, granted>>
                  /\ lastCheck' = Completed(tool, args, "deny", TRUE, response)
                  /\ pending' = NoCall
             [] branch = "all" ->
                  /\ allow_all' = TRUE
                  /\ UNCHANGED <<allowed_tools, allowed_bash_commands, allowed_paths, granted>>
                  /\ lastCheck' = Completed(tool, args, "allow", TRUE, response)
                  /\ pending' = NoCall
             [] OTHER ->
                  UNCHANGED <<sessionVars, granted, lastCheck, pending>>

\* _prompt_user, lines 118-148: one pass of the loop with the answer read
PromptAnswer(response) ==
    /\ pending # NoCall
    /\ UNCHANGED cfgVars
    /\ LET tool == pending.tool
           args == pending.args
           branch == PromptBranch(response)
       IN  CASE branch = "yes" ->
                  /\ UNCHANGED <<sessionVars, granted>>
                  /\ lastCheck' = Completed(tool, args, "allow", TRUE, response)
                  /\ pending' = NoCall
             [] branch = "no" ->
                  /\ UNCHANGED <<sessionVars, granted>>
                  /\ lastCheck' = Completed(tool, args, "deny", TRUE, response)
                  /\ pending' = NoCall
             [] branch = "always" ->
                  /\ GrantAlways(tool, args)
                  /\ granted' = granted \cup {GrantScope(tool, args)}
                  /\ lastCheck' = Completed(tool, args, "allow", TRUE, response)
                  /\ pending' = NoCall
             [] branch = "all" ->
                  /\ allow_all' = TRUE
                  /\ UNCHANGED <<allowed_tools, allowed_bash_commands, allowed_paths, granted>>
                  /\ lastCheck' = Completed(tool, args, "allow", TRUE, response)
                  /\ pending' = NoCall
             [] OTHER ->
                  UNCHANGED <<sessionVars, granted, lastCheck, pending>>

\* console.input raises (KeyboardInterrupt, EOFError): check raises to its caller
PromptRaise ==
    /\ pending # NoCall
    /\ UNCHANGED <<cfgVars, sessionVars, granted>>
    /\ lastCheck' = Completed(pending.tool, pending.args, "raise", TRUE, <<>>)
    /\ pending' = NoCall

-----------------------------------------------------------------------------
(* Tool.execute                                                            *)

\* the parameters of each tool's execute: those without and with a default
Required(tool) ==
    CASE tool = "bash" -> {"command"}
      [] tool = "read_file" -> {"path"}
      [] tool = "write_file" -> {"path", "content"}
      [] tool = "edit_file" -> {"path", "old_string", "new_string"}
      [] tool = "grep" -> {"pattern"}
      [] tool = "web_fetch" -> {"url"}
      [] tool = "dafny_verify" -> {"path"}
      [] OTHER -> {}

Optional(tool) ==
    CASE tool = "edit_file" -> {"replace_all"}
      [] tool = "grep" -> {"path", "glob", "ignore_case"}
      [] OTHER -> {}

\* tool.execute(**call.args) binds: every parameter without a default is given
\* and no other keyword is; otherwise the call raises TypeError before the body
\* (and its try) is entered
Binds(tool, args) ==
    /\ Required(tool) \subseteq Keys(args)
    /\ Keys(args) \subseteq Required(tool) \cup Optional(tool)

\* the home directory
Home == <<"h">>

\* Path(path).expanduser()
ExpandUser(path) ==
    IF path # <<>> /\ Head(path) = "~" THEN <<"/">> \o Home \o Tail(path) ELSE path

\* the file the OS opens for Path(path).expanduser()
Opened(path) == Resolve(ExpandUser(path))

InitialFiles == {<<"w", "a.txt">>}

\* the content of a file is the sequence of its characters
InitialContent == [p \in InitialFiles |-> <<"x", "x">>]

\* the directories: the root, the working directory, the home directory, and
\* every directory on the way to a file
IsDir(p) ==
    \/ p \in {<<>>, Cwd, Home}
    \/ \E f \in files : Len(p) < Len(f) /\ IsRelativeTo(f, p)

\* Path.exists() and Path.is_file()
Exists(p) == p \in files \/ IsDir(p)
IsFile(p) == p \in files

ErrNotFound == <<"[error: file not found]">>
ErrNotAFile == <<"[error: not a file]">>
ErrOldNotFound == <<"[error: old_string not found]">>
ErrAppears(count) == <<"[error: old_string appears", ToString(count), "times]">>
ErrOS == <<"[error: OSError]">>
Wrote == <<"[wrote]">>
Replaced(count) == <<"[replaced", ToString(count), "occurrence(s)]">>
Output == <<"output">>

\* str.count(old): the occurrences of old that do not overlap, from the left
RECURSIVE Count(_, _)
Count(s, old) ==
    IF old = <<>> THEN Len(s) + 1
    ELSE IF Len(s) < Len(old) THEN 0
         ELSE IF SubSeq(s, 1, Len(old)) = old
              THEN 1 + Count(SubSeq(s, Len(old) + 1, Len(s)), old)
              ELSE Count(Tail(s), old)

\* str.replace(old, new, n): the first n occurrences replaced
RECURSIVE Replace(_, _, _, _)
Replace(s, old, new, n) ==
    IF n = 0 THEN s
    ELSE IF old = <<>>
         THEN (IF s = <<>> THEN new
               ELSE new \o <<Head(s)>> \o Replace(Tail(s), old, new, n - 1))
         ELSE IF Len(s) < Len(old) THEN s
              ELSE IF SubSeq(s, 1, Len(old)) = old
                   THEN new \o Replace(SubSeq(s, Len(old) + 1, Len(s)), old, new, n - 1)
                   ELSE <<Head(s)>> \o Replace(Tail(s), old, new, n)

\* EditFileTool.execute, lines 163-191: the outcome for arguments that bind:
\* the text returned and the content of the file after it (Same: no write)
Same == <<"no write">>
EditOutcome(args) ==
    LET p == Opened(Get(args, "path", <<>>))
        old_string == Get(args, "old_string", <<>>)
        new_string == Get(args, "new_string", <<>>)
        replace_all == Get(args, "replace_all", FALSE)
    IN  IF ~Exists(p) THEN [text |-> ErrNotFound, written |-> Same]
        ELSE IF ~IsFile(p) THEN [text |-> ErrNotAFile, written |-> Same]
        ELSE LET count == Count(disk[p], old_string) IN
             IF count = 0 THEN [text |-> ErrOldNotFound, written |-> Same]
             ELSE IF count > 1 /\ ~replace_all
                  THEN [text |-> ErrAppears(count), written |-> Same]
                  ELSE IF replace_all
                       THEN [text |-> Replaced(count),
                             written |-> Replace(disk[p], old_string, new_string, count)]
                       ELSE [text |-> Replaced(1),
                             written |-> Replace(disk[p], old_string, new_string, 1)]

\* WriteFileTool.execute, lines 116-122: mkdir of the parents and write_text
\* fail on a directory in place of the file or a file in place of a parent
WriteFails(p) ==
    \/ IsDir(p)
    \/ \E f \in files : Len(f) < Len(p) /\ IsRelativeTo(p, f)

\* the text execute returns, for arguments that bind
ExecuteText(tool, args) ==
    CASE tool = "read_file" ->
            LET p == Opened(Get(args, "path", <<>>)) IN
            IF ~Exists(p) THEN ErrNotFound
            ELSE IF ~IsFile(p) THEN ErrNotAFile ELSE disk[p]
      [] tool = "edit_file" -> EditOutcome(args).text
      [] tool = "write_file" ->
            IF WriteFails(Opened(Get(args, "path", <<>>))) THEN ErrOS ELSE Wrote
      [] OTHER -> Output

\* the files after execute
ExecuteFiles(tool, args) ==
    IF tool = "write_file" /\ ~WriteFails(Opened(Get(args, "path", <<>>)))
    THEN files \cup {Opened(Get(args, "path", <<>>))} ELSE files

\* ExecuteContent as it would be if edit_file replaced the first occurrence
\* before it counted the occurrences
ExecuteContent_EditsFirst(tool, args) ==
    LET p == Opened(Get(args, "path", <<>>)) IN
    IF tool = "edit_file" /\ IsFile(p)
    THEN [disk EXCEPT ![p] = Replace(@, Get(args, "old_string", <<>>),
                                        Get(args, "new_string", <<>>), 1)]
    ELSE disk

\* the content of the files after execute
ExecuteContent(tool, args) ==
    LET p == Opened(Get(args, "path", <<>>)) IN
    IF tool = "write_file" /\ ~WriteFails(p)
    THEN [f \in files \cup {p} |-> IF f = p THEN Get(args, "content", <<>>) ELSE disk[f]]
    ELSE IF tool = "edit_file" /\ EditOutcome(args).written # Same
         THEN [disk EXCEPT ![p] = EditOutcome(args).written]
         ELSE disk

\* no tool has been executed
NoExec == [tool |-> "", args |-> {}, text |-> <<>>, before |-> InitialContent]

\* tool.execute(**args) for arguments that bind: its effects
Ran(tool, args) ==
    /\ files' = ExecuteFiles(tool, args)
    /\ disk' = ExecuteContent(tool, args)
    /\ lastExec' = [tool |-> tool, args |-> args, text |-> ExecuteText(tool, args),
                    before |-> disk]

-----------------------------------------------------------------------------
(* Hooks and their composition in run_agent                                *)

\* hooks/dafny.py; attrs are the names hasattr finds
DafnyHook ==
    [attrs |-> {"TOOLS", "PATH_BASED", "AUTO_ALLOW_CWD"},
     TOOLS |-> <<"dafny_verify">>, REMOVE_TOOLS |-> {},
     PATH_BASED |-> {"dafny_verify"}, AUTO_ALLOW_CWD |-> {"dafny_verify"},
     AUTO_ALLOW |-> {}, REJECT_PROMPTS |-> FALSE]

\* hooks/bench.py
BenchHook ==
    [attrs |-> {"REMOVE_TOOLS", "AUTO_ALLOW_CWD", "REJECT_PROMPTS"},
     TOOLS |-> <<>>, REMOVE_TOOLS |-> {"bash", "web_fetch"},
     PATH_BASED |-> {}, AUTO_ALLOW_CWD |-> {"write_file", "edit_file"},
     AUTO_ALLOW |-> {}, REJECT_PROMPTS |-> TRUE]

\* the --hook lists of a run
HookLists ==
    {<<>>, <<DafnyHook>>, <<BenchHook>>, <<DafnyHook, BenchHook>>, <<BenchHook, DafnyHook>>}

get_default_tools == <<"bash", "read_file", "write_file", "edit_file", "grep", "web_fetch">>

\* [t for t in tools if t.name not in remove]
RECURSIVE Without(_, _)
Without(ts, remove) ==
    IF ts = <<>> THEN <<>>
    ELSE IF Head(ts) \in remove THEN Without(Tail(ts), remove)
         ELSE <<Head(ts)>> \o Without(Tail(ts), remove)

\* run_agent, lines 246-253
RECURSIVE ComposeTools(_, _)
ComposeTools(ts, hooks) ==
    IF hooks = <<>> THEN ts
    ELSE LET hook == Head(hooks)
             added == IF "TOOLS" \in hook.attrs THEN ts \o hook.TOOLS ELSE ts
             kept == IF "REMOVE_TOOLS" \in hook.attrs
                     THEN Without(added, hook.REMOVE_TOOLS) ELSE added
         IN  ComposeTools(kept, Tail(hooks))

\* run_agent, lines 257-270
RECURSIVE ComposeConfig(_, _)
ComposeConfig(cfg, hooks) ==
    IF hooks = <<>> THEN cfg
    ELSE LET hook == Head(hooks) IN
         ComposeConfig(
            [path_based |-> IF "PATH_BASED" \in hook.attrs
                            THEN cfg.path_based \cup hook.PATH_BASED ELSE cfg.path_based,
             auto_allow_cwd |-> IF "AUTO_ALLOW_CWD" \in hook.attrs
                                THEN cfg.auto_allow_cwd \cup hook.AUTO_ALLOW_CWD
                                ELSE cfg.auto_allow_cwd,
             auto_allow |-> IF "AUTO_ALLOW" \in hook.attrs
                            THEN cfg.auto_allow \cup hook.AUTO_ALLOW ELSE cfg.auto_allow,
             reject_prompts |-> IF "REJECT_PROMPTS" \in hook.attrs
                                THEN cfg.reject_prompts \/ hook.REJECT_PROMPTS
                                ELSE cfg.reject_prompts],
            Tail(hooks))

DefaultConfig ==
    [path_based |-> DEFAULT_PATH_BASED, auto_allow_cwd |-> DEFAULT_AUTO_ALLOW_CWD,
     auto_allow |-> DEFAULT_AUTO_ALLOW, reject_prompts |-> FALSE]

-----------------------------------------------------------------------------
(* Inputs                                                                  *)

\* tool calls a model response can carry: name and args
Call(name, args) == [name |-> name, args |-> args]

PathA == <<"a.txt">>
PathDotA == <<".", "a.txt">>
PathEtc == <<"/", "etc", "x">>
PathHome == <<"~", "a.txt">>
CmdLs == <<"ls">>
CmdLsL == <<"ls", "-l">>
Txt == <<"t">>

CallShapes ==
    { Call("bash", {<<"command", CmdLs>>}),
      Call("bash", {<<"command", CmdLsL>>}),
      Call("bash", {}),
      Call("write_file", {<<"path", PathA>>, <<"content", Txt>>}),
      Call("write_file", {<<"path", PathDotA>>, <<"content", Txt>>}),
      Call("write_file", {<<"path", PathEtc>>, <<"content", Txt>>}),
      Call("write_file", {<<"path", PathEtc>>}),
      Call("write_file", {<<"path", PathHome>>, <<"content", Txt>>}),
      Call("edit_file", {<<"path", PathEtc>>, <<"old_string", Txt>>, <<"new_string", Txt>>}),
      Call("read_file", {<<"path", PathEtc>>}),
      Call("read_file", {<<"path", PathA>>, <<"encoding", Txt>>}),
      Call("web_fetch", {<<"url", Txt>>}),
      Call("dafny_verify", {<<"path", PathA>>}),
      Call("dafny_verify", {<<"path", PathEtc>>}),
      Call("no_such_tool", {}) }

\* what the user types at the permission prompt
AnsYes == <<"y">>
AnsNo == <<" ", "N", "o">>
AnsAlways == <<"a">>
AnsAll == <<"A">>
Responses == {AnsYes, AnsNo, AnsAlways, AnsAll, <<"x">>}

\* providers/base.py: StreamEvent; None and "" are both the empty value
StreamEvent(text, calls, started, stop) ==
    [text |-> text, tool_calls |-> calls, tool_use_started |-> started, stop_reason |-> stop]

\* current_tool_id = None, current_tool_name = None, current_tool_input = ""
NoTool == [id |-> "", name |-> "", input |-> <<>>]

\* the locals of stream as its first lines set them
FreshLocals ==
    /\ tool_call_builders = <<>>
    /\ final_finish_reason = ""
    /\ stream_calls = <<>>
    /\ current_tool = NoTool
    /\ open_block = ""
    /\ final_message = ""
    /\ nchunks = 0
    /\ trace = <<>>

\* no provider.stream has been called
NoStream == provider = "" /\ spos = "none" /\ FreshLocals

\* Agent.__init__, lines 92-93, and no stream loop entered
NoLoop ==
    /\ status = ""
    /\ pondering_task = "none"
    /\ live_tasks = 0
    /\ stream_events = <<>>
    /\ nevents = 0
    /\ response_text = <<>>

\* a run holds at most MaxGrants 'always' answers
MaxGrants == 2

-----------------------------------------------------------------------------
(* PermissionManager driven directly: any caller of check, on a manager    *)
(* constructed with any fields                                             *)

CtorConfigs ==
    {ComposeConfig(DefaultConfig, hooks) : hooks \in HookLists}
    \cup {[DefaultConfig EXCEPT !.auto_allow = {"web_fetch", "edit_file"}],
          [DefaultConfig EXCEPT !.path_based = @ \cup {"bash"},
                                !.auto_allow_cwd = @ \cup {"bash"}]}

CtorSessions ==
    {[EmptySession EXCEPT !.allowed_tools = ts] : ts \in {{}, {"bash"}, {"write_file"}}}
    \cup {[EmptySession EXCEPT !.allow_all = TRUE]}

InitPM ==
    /\ \E cfg \in CtorConfigs :
          /\ path_based = cfg.path_based
          /\ auto_allow_cwd = cfg.auto_allow_cwd
          /\ auto_allow = cfg.auto_allow
          /\ reject_prompts = cfg.reject_prompts
    /\ loaded_hooks = <<>>
    /\ \E s \in CtorSessions :
          /\ allowed_tools = s.allowed_tools
          /\ allowed_bash_commands = s.allowed_bash_commands
          /\ allowed_paths = s.allowed_paths
          /\ allow_all = s.allow_all
    /\ pending = NoCall
    /\ lastCheck = NoCheck
    /\ granted = {}
    /\ tools = get_default_tools
    /\ messages = <<>>
    /\ pc = "idle"
    /\ tool_calls = <<>>
    /\ results = <<>>
    /\ idx = 0
    /\ max_turns = 0
    /\ nstream = 0
    /\ turns = 0
    /\ executed = <<>>
    /\ files = InitialFiles
    /\ disk = InitialContent
    /\ lastExec = NoExec
    /\ NoStream
    /\ NoLoop

PMCheck == (\E c \in CallShapes : CheckEnter(c.name, c.args)) /\ UNCHANGED <<agentVars, streamVars, status, loopVars>>
PMAnswer ==
    /\ \E r \in Responses :
          /\ PromptBranch(r) = "always" => Cardinality(granted) < MaxGrants
          /\ PromptAnswer(r)
    /\ UNCHANGED <<agentVars, streamVars, status, loopVars>>
PMRaise == PromptRaise /\ UNCHANGED <<agentVars, streamVars, status, loopVars>>

NextPM == PMCheck \/ PMAnswer \/ PMRaise

SpecPM == InitPM /\ [][NextPM]_vars

-----------------------------------------------------------------------------
(* EditFileTool.execute called directly, on a file of any content          *)

\* the longest file content
MaxFileLen == 3

\* the contents a file may have: every sequence of x and y up to MaxFileLen
RECURSIVE Contents(_)
Contents(n) ==
    IF n = 0 THEN {<<>>}
    ELSE Contents(n - 1)
         \cup {<<c>> \o s : c \in {"x", "y"}, s \in {t \in Contents(n - 1) : Len(t) = n - 1}}

\* the keyword arguments of a call of edit_file that binds
EditArgs ==
    {{<<"path", path>>, <<"old_string", old>>, <<"new_string", new>>} \cup flag :
        path \in {PathA, PathEtc, <<".">>},
        old \in {<<"x">>, <<"y">>, <<"x", "x">>, <<>>},
        new \in {<<"y">>, <<>>},
        flag \in {{}, {<<"replace_all", TRUE>>}, {<<"replace_all", FALSE>>}}}

InitEdit ==
    /\ loaded_hooks = <<>>
    /\ path_based = DEFAULT_PATH_BASED
    /\ auto_allow_cwd = DEFAULT_AUTO_ALLOW_CWD
    /\ auto_allow = DEFAULT_AUTO_ALLOW
    /\ reject_prompts = FALSE
    /\ allowed_tools = {}
    /\ allowed_bash_commands = {}
    /\ allowed_paths = <<>>
    /\ allow_all = FALSE
    /\ pending = NoCall
    /\ lastCheck = NoCheck
    /\ granted = {}
    /\ tools = get_default_tools
    /\ messages = <<>>
    /\ pc = "idle"
    /\ tool_calls = <<>>
    /\ results = <<>>
    /\ idx = 0
    /\ max_turns = 0
    /\ nstream = 0
    /\ turns = 0
    /\ executed = <<>>
    /\ files = InitialFiles
    /\ disk \in [InitialFiles -> Contents(MaxFileLen)]
    /\ lastExec = [NoExec EXCEPT !.before = disk]
    /\ NoStream
    /\ NoLoop

\* EditFileTool().execute(**args)
EditFile ==
    /\ \E args \in EditArgs :
          /\ \A f \in files : Len(ExecuteContent("edit_file", args)[f]) <= MaxFileLen
          /\ Ran("edit_file", args)
    /\ UNCHANGED <<pmVars, tools, messages, pc, tool_calls, results, idx, max_turns,
                   nstream, turns, executed, streamVars, status, loopVars>>

NextEdit == EditFile

SpecEdit == InitEdit /\ [][NextEdit]_vars

-----------------------------------------------------------------------------
(* Agent.chat and the input loop of run_agent                              *)

\* total provider.stream requests of a run, and total tool calls of a run
MaxStreams == 2
MaxCalls == 2

\* the shapes of tool calls the model emits in a run of the agent
\* (dafny_verify is not in the registry without hooks/dafny.py, bash and web_fetch
\* are not with hooks/bench.py)
AgentShapes ==
    { Call("bash", {<<"command", CmdLs>>}),
      Call("bash", {}),
      Call("write_file", {<<"path", PathA>>, <<"content", Txt>>}),
      Call("read_file", {<<"path", PathEtc>>}),
      Call("web_fetch", {<<"url", Txt>>}),
      Call("dafny_verify", {<<"path", PathA>>}) }

\* messages.py
ToolCall(id, name, args) == [id |-> id, name |-> name, args |-> args]
ToolResult(tool_call_id, content, is_error) ==
    [tool_call_id |-> tool_call_id, content |-> content, is_error |-> is_error]
Message(role, content, calls, res) ==
    [role |-> role, content |-> content, tool_calls |-> calls, tool_results |-> res]
UserMessage(content) == Message("user", content, <<>>, <<>>)
\* AssistantMessage as it would be if the response were recorded under the
\* role of the tool results
AssistantMessage_AsUser(content, calls) == Message("user", content, calls, <<>>)
AssistantMessage(content, calls) == Message("assistant", content, calls, <<>>)
ToolResultMessage(res) == Message("user", <<>>, <<>>, res)

\* the tool calls the responses of the run have carried so far
RECURSIVE CallsInLog(_)
CallsInLog(log) ==
    IF log = <<>> THEN 0 ELSE Len(Head(log).tool_calls) + CallsInLog(Tail(log))

RECURSIVE SeqsUpTo(_, _)
SeqsUpTo(S, n) ==
    IF n = 0 THEN {<<>>}
    ELSE LET shorter == SeqsUpTo(S, n - 1) IN
         shorter \cup {Append(q, x) : q \in {r \in shorter : Len(r) = n - 1}, x \in S}

\* the provider gives the i-th call of its n-th response the id <<n, i>>
WithIds(shapes, n) ==
    [i \in 1..Len(shapes) |-> ToolCall(<<n, i>>, shapes[i].name, shapes[i].args)]

\* tools_by_name.get(call.name)
Registered(name) == \E i \in 1..Len(tools) : tools[i] = name

ErrUnknown == <<"[error: unknown tool]">>
ErrDenied == <<"[permission denied by user]">>

\* the text fragments of a response
TextFragments == {<<>>, <<Txt>>}

\* a stream as the providers deliver it: text events, tool_use_started when
\* calls are forthcoming, then the terminal event
EventsOf(frags, calls) ==
    [i \in 1..Len(frags) |-> StreamEvent(frags[i], <<>>, FALSE, "")]
    \o (IF calls # <<>> THEN <<StreamEvent(<<>>, <<>>, TRUE, "")>> ELSE <<>>)
    \o <<StreamEvent(<<>>, calls, FALSE, IF calls # <<>> THEN "tool_use" ELSE "end_turn")>>

\* chat, lines 131-158: the loop over the events of one stream
RECURSIVE Consume(_, _)
Consume(acc, events) ==
    IF events = <<>> THEN acc
    ELSE LET event == Head(events) IN
         Consume([response_text |-> IF event.text # <<>>
                                    THEN acc.response_text \o event.text
                                    ELSE acc.response_text,
                  tool_calls |-> IF event.tool_calls # <<>>
                                 THEN event.tool_calls ELSE acc.tool_calls,
                  stop_reason |-> IF event.stop_reason # ""
                                  THEN event.stop_reason ELSE acc.stop_reason],
                 Tail(events))

\* ChatBegin as it would be if each chat started a log of its own
ChatBegin_FreshLog ==
    /\ pc = "idle"
    /\ nstream < MaxStreams
    /\ messages' = <<UserMessage(Txt)>>
    /\ pc' = "streaming"
    /\ turns' = 0
    /\ UNCHANGED <<pmVars, tools, tool_calls, results, idx, max_turns, nstream, executed,
                   files, disk, lastExec, status>>
    /\ UNCHANGED <<streamVars, loopVars>>

\* run_agent, lines 303-314, and chat, line 127: a line of input starts a chat
ChatBegin ==
    /\ pc = "idle"
    /\ nstream < MaxStreams
    /\ messages' = Append(messages, UserMessage(Txt))
    /\ pc' = "streaming"
    /\ turns' = 0
    /\ UNCHANGED <<pmVars, tools, tool_calls, results, idx, max_turns, nstream, executed,
                   files, disk, lastExec, status>>
    /\ UNCHANGED <<streamVars, loopVars>>

\* run_agent, lines 309-311 and 318-319: end of input ends the run
InputEOF ==
    /\ pc = "idle"
    /\ pc' = "exited"
    /\ UNCHANGED <<pmVars, tools, messages, tool_calls, results, idx, max_turns, nstream,
                   turns, executed, files, disk, lastExec, status>>
    /\ UNCHANGED <<streamVars, loopVars>>

\* chat, lines 129-173: one provider request and its assistant message
StreamResponse ==
    /\ pc = "streaming"
    /\ nstream < MaxStreams
    /\ \E shapes \in SeqsUpTo(AgentShapes, MaxCalls - CallsInLog(messages)),
          frags \in TextFragments :
          LET acc == Consume([response_text |-> <<>>, tool_calls |-> <<>>,
                              stop_reason |-> ""],
                             EventsOf(frags, WithIds(shapes, nstream + 1)))
          IN  /\ messages' = Append(messages,
                                    AssistantMessage(acc.response_text, acc.tool_calls))
              /\ tool_calls' = acc.tool_calls
              /\ IF acc.tool_calls = <<>>
                 THEN pc' = "idle" /\ idx' = 0 /\ status' = ""
                 ELSE pc' = "executing" /\ idx' = 1 /\ status' = "Working..."
    /\ results' = <<>>
    /\ nstream' = nstream + 1
    /\ turns' = turns + 1
    /\ UNCHANGED <<pmVars, tools, max_turns, executed, files, disk, lastExec>>
    /\ UNCHANGED <<streamVars, loopVars>>

\* ProviderFault as it would be if chat caught the fault and asked again
ProviderFault_Retried ==
    /\ pc = "streaming"
    /\ nstream < MaxStreams
    /\ pc' = "streaming"
    /\ nstream' = nstream + 1
    /\ turns' = turns + 1
    /\ status' = "Answering..."
    /\ UNCHANGED <<pmVars, tools, messages, tool_calls, results, idx, max_turns, executed,
                   files, disk, lastExec>>
    /\ UNCHANGED <<streamVars, loopVars>>

\* provider.stream raises: chat and run_agent let the fault through
ProviderFault ==
    /\ pc = "streaming"
    /\ nstream < MaxStreams
    /\ pc' = "faulted"
    /\ nstream' = nstream + 1
    /\ turns' = turns + 1
    /\ status' = "Answering..."
    /\ UNCHANGED <<pmVars, tools, messages, tool_calls, results, idx, max_turns, executed,
                   files, disk, lastExec>>
    /\ UNCHANGED <<streamVars, loopVars>>

\* Finish as it would be if chat asked the provider again after each result
Finish_Pipelined(res) ==
    LET rs == Append(results, res) IN
    IF idx = Len(tool_calls)
    THEN /\ messages' = Append(messages, ToolResultMessage(rs))
         /\ pc' = "streaming"
         /\ tool_calls' = <<>>
         /\ results' = <<>>
         /\ idx' = 0
    ELSE /\ results' = rs
         /\ idx' = idx + 1
         /\ pc' = "streaming"
         /\ UNCHANGED <<messages, tool_calls>>

\* chat, lines 178-183, 188-193, 203 and 207: a result joins the list; after the
\* last call of the batch the tool-result message is appended
Finish(res) ==
    LET rs == Append(results, res) IN
    IF idx = Len(tool_calls)
    THEN /\ messages' = Append(messages, ToolResultMessage(rs))
         /\ pc' = "streaming"
         /\ tool_calls' = <<>>
         /\ results' = <<>>
         /\ idx' = 0
    ELSE /\ results' = rs
         /\ idx' = idx + 1
         /\ pc' = "executing"
         /\ UNCHANGED <<messages, tool_calls>>

\* Execute as it would be if a text that reports a failure were flagged as an error
Execute_FlagsFailure(call) ==
    IF Binds(call.name, call.args)
    THEN /\ executed' = Append(executed, call.id)
         /\ Ran(call.name, call.args)
         /\ status' = ""
         /\ Finish(ToolResult(call.id, ExecuteText(call.name, call.args),
                              ExecuteText(call.name, call.args) = ErrNotFound))
    ELSE /\ pc' = "faulted"
         /\ status' = "Executing..."
         /\ UNCHANGED <<messages, tool_calls, results, idx, executed, files, disk, lastExec>>

\* chat, lines 195-204: tool.execute(**call.args)
Execute(call) ==
    IF Binds(call.name, call.args)
    THEN /\ executed' = Append(executed, call.id)
         /\ Ran(call.name, call.args)
         /\ status' = ""
         /\ Finish(ToolResult(call.id, ExecuteText(call.name, call.args), FALSE))
    ELSE /\ pc' = "faulted"
         /\ status' = "Executing..."
         /\ UNCHANGED <<messages, tool_calls, results, idx, executed, files, disk, lastExec>>

\* Deny as it would be if a denied call were executed all the same
Deny_Executes(call) == Execute(call)

\* chat, lines 187-193
Deny(call) ==
    /\ Finish(ToolResult(call.id, ErrDenied, TRUE))
    /\ status' = ""
    /\ UNCHANGED <<executed, files, disk, lastExec>>

\* Unknown as it would be if the synthesized result were not flagged as an error
Unknown_NotError(call) ==
    /\ Finish(ToolResult(call.id, ErrUnknown, FALSE))
    /\ UNCHANGED <<pmVars, executed, files, disk, lastExec, status>>

\* chat, lines 176-183: the name is not in tools_by_name
Unknown(call) ==
    /\ Finish(ToolResult(call.id, ErrUnknown, TRUE))
    /\ UNCHANGED <<pmVars, executed, files, disk, lastExec, status>>

\* chat, lines 175-204: the next call of the batch, up to a permission prompt
HandleCall ==
    /\ pc = "executing"
    /\ LET call == tool_calls[idx] IN
       IF ~Registered(call.name)
       THEN Unknown(call)
       ELSE /\ CheckEnter(call.name, call.args)
            /\ IF pending'.active
               THEN /\ pc' = "prompting"
                    /\ status' = ""
                    /\ UNCHANGED <<messages, tool_calls, results, idx, executed, files, disk,
                                   lastExec>>
               ELSE IF lastCheck'.result = "allow" THEN Execute(call) ELSE Deny(call)
    /\ UNCHANGED <<tools, max_turns, nstream, turns>>
    /\ UNCHANGED <<streamVars, loopVars>>

\* the user answers the prompt of the current call
AnswerPrompt ==
    /\ pc = "prompting"
    /\ \E response \in Responses :
          /\ PromptBranch(response) = "always" => Cardinality(granted) < MaxGrants
          /\ PromptAnswer(response)
          /\ IF pending'.active
             THEN UNCHANGED <<messages, pc, tool_calls, results, idx, executed, files, disk,
                              lastExec, status>>
             ELSE IF lastCheck'.result = "allow"
                  THEN Execute(tool_calls[idx]) ELSE Deny(tool_calls[idx])
    /\ UNCHANGED <<tools, max_turns, nstream, turns>>
    /\ UNCHANGED <<streamVars, loopVars>>

\* Ctrl+C or end of input at the prompt: run_agent, lines 315-319, ends the run
PromptInterrupt ==
    /\ pc = "prompting"
    /\ PromptRaise
    /\ pc' = "exited"
    /\ UNCHANGED <<tools, messages, tool_calls, results, idx, max_turns, nstream, turns,
                   executed, files, disk, lastExec, status>>
    /\ UNCHANGED <<streamVars, loopVars>>

\* --max-turns of cli.py: the limit given (no code of the run reads it, so a run
\* without a limit differs in nothing but this value)
MaxTurnsChoices == {1}

\* run_agent, lines 232-279
Init ==
    /\ \E hooks \in HookLists :
          LET cfg == ComposeConfig(DefaultConfig, hooks) IN
          /\ loaded_hooks = hooks
          /\ tools = ComposeTools(get_default_tools, hooks)
          /\ path_based = cfg.path_based
          /\ auto_allow_cwd = cfg.auto_allow_cwd
          /\ auto_allow = cfg.auto_allow
          /\ reject_prompts = cfg.reject_prompts
    /\ allowed_tools = {}
    /\ allowed_bash_commands = {}
    /\ allowed_paths = <<>>
    /\ allow_all = FALSE
    /\ pending = NoCall
    /\ lastCheck = NoCheck
    /\ granted = {}
    /\ messages = <<>>
    /\ pc = "idle"
    /\ tool_calls = <<>>
    /\ results = <<>>
    /\ idx = 0
    /\ max_turns \in MaxTurnsChoices
    /\ nstream = 0
    /\ turns = 0
    /\ executed = <<>>
    /\ files = InitialFiles
    /\ disk = InitialContent
    /\ lastExec = NoExec
    /\ NoStream
    /\ NoLoop

Next ==
    \/ ChatBegin
    \/ InputEOF
    \/ StreamResponse
    \/ ProviderFault
    \/ HandleCall
    \/ AnswerPrompt
    \/ PromptInterrupt

Spec == Init /\ [][Next]_vars

-----------------------------------------------------------------------------
(* The stream loop of chat, event by event, and the pondering task         *)

\* the text fragments of a response, enough of them for the task to be
\* scheduled again while it is pending
PonderFragments == {<<>>, <<Txt>>, <<Txt, Txt>>}

\* the shapes of tool calls the model emits: one the user is asked about, one
\* whose arguments do not bind, and one that is in the registry only with
\* hooks/dafny.py
PonderShapes ==
    { Call("write_file", {<<"path", PathA>>, <<"content", Txt>>}),
      Call("bash", {}),
      Call("dafny_verify", {<<"path", PathA>>}) }

\* _cancel_pondering, lines 95-99: a task that is not done is cancelled and
\* forgotten, a task that is done is kept
Cancelled(task) == IF task = "pending" THEN "none" ELSE task

\* self._pondering_task and the live tasks, as one value
Pondering == [task |-> pondering_task, live |-> live_tasks]

\* _cancel_pondering on that value
CancelPondering(t) ==
    [task |-> Cancelled(t.task), live |-> IF t.task = "pending" THEN t.live - 1 ELSE t.live]

\* _schedule_pondering as it would be without the call of _cancel_pondering
_schedule_pondering_NoCancel(t) == [task |-> "pending", live |-> t.live + 1]

\* _schedule_pondering, lines 101-110: cancel, then asyncio.create_task
_schedule_pondering(t) == [task |-> "pending", live |-> CancelPondering(t).live + 1]

\* chat, lines 131-138: the locals, the spinner, and the request to the provider
LoopBegin ==
    /\ pc = "streaming"
    /\ nstream < MaxStreams
    /\ \E shapes \in SeqsUpTo(PonderShapes, MaxCalls - CallsInLog(messages)),
          frags \in PonderFragments :
          stream_events' = EventsOf(frags, WithIds(shapes, nstream + 1))
    /\ nevents' = 0
    /\ response_text' = <<>>
    /\ tool_calls' = <<>>
    /\ status' = "Answering..."
    /\ pc' = "looping"
    /\ nstream' = nstream + 1
    /\ turns' = turns + 1
    /\ UNCHANGED <<pmVars, tools, messages, results, idx, max_turns, executed, files, disk,
                   lastExec, pondering_task, live_tasks, streamVars>>

\* chat, lines 143-158: the body of the loop for the next event
LoopEvent ==
    /\ pc = "looping"
    /\ nevents < Len(stream_events)
    /\ LET event == stream_events[nevents + 1]
           working == event.tool_use_started \/ event.tool_calls # <<>>
           scheduled == IF event.text # <<>> THEN _schedule_pondering(Pondering)
                        ELSE Pondering
           after == IF working THEN CancelPondering(scheduled) ELSE scheduled
       IN  /\ response_text' = IF event.text # <<>>
                               THEN response_text \o event.text ELSE response_text
           /\ tool_calls' = IF event.tool_calls # <<>> THEN event.tool_calls ELSE tool_calls
           /\ pondering_task' = after.task
           /\ live_tasks' = after.live
           /\ status' = IF working THEN "Working..."
                        ELSE IF event.text # <<>> THEN "" ELSE status
    /\ nevents' = nevents + 1
    /\ UNCHANGED <<pmVars, tools, messages, pc, results, idx, max_turns, nstream, turns,
                   executed, files, disk, lastExec, stream_events, streamVars>>

\* PonderFire as it would be if the task added its status to the response
PonderFire_Speaks ==
    /\ pc = "looping"
    /\ pondering_task = "pending"
    /\ status' = "Pondering..."
    /\ pondering_task' = "done"
    /\ live_tasks' = live_tasks - 1
    /\ response_text' = response_text \o <<"Pondering...">>
    /\ UNCHANGED <<pmVars, agentVars, streamVars, stream_events, nevents>>

\* show_pondering, lines 105-108: the sleep is over while chat waits for the
\* next event; the task prints a newline, shows its status and is done
PonderFire ==
    /\ pc = "looping"
    /\ pondering_task = "pending"
    /\ status' = "Pondering..."
    /\ pondering_task' = "done"
    /\ live_tasks' = live_tasks - 1
    /\ UNCHANGED <<pmVars, agentVars, streamVars, stream_events, nevents, response_text>>

\* LoopEnd as it would be if a response without text were not recorded
LoopEnd_SkipsEmpty ==
    /\ pc = "looping"
    /\ nevents = Len(stream_events)
    /\ pondering_task' = CancelPondering(Pondering).task
    /\ live_tasks' = CancelPondering(Pondering).live
    /\ messages' = IF response_text = <<>> THEN messages
                   ELSE Append(messages, AssistantMessage(response_text, tool_calls))
    /\ IF tool_calls = <<>>
       THEN pc' = "idle" /\ idx' = 0 /\ status' = ""
       ELSE pc' = "executing" /\ idx' = 1 /\ status' = "Working..."
    /\ results' = <<>>
    /\ UNCHANGED <<pmVars, tools, tool_calls, max_turns, nstream, turns, executed, files,
                   disk, lastExec, stream_events, nevents, response_text, streamVars>>

\* chat, lines 160-173: the stream is exhausted; the task is cancelled, the
\* spinner hidden and the assistant message recorded
LoopEnd ==
    /\ pc = "looping"
    /\ nevents = Len(stream_events)
    /\ pondering_task' = CancelPondering(Pondering).task
    /\ live_tasks' = CancelPondering(Pondering).live
    /\ messages' = Append(messages, AssistantMessage(response_text, tool_calls))
    /\ IF tool_calls = <<>>
       THEN pc' = "idle" /\ idx' = 0 /\ status' = ""
       ELSE pc' = "executing" /\ idx' = 1 /\ status' = "Working..."
    /\ results' = <<>>
    /\ UNCHANGED <<pmVars, tools, tool_calls, max_turns, nstream, turns, executed, files,
                   disk, lastExec, stream_events, nevents, response_text, streamVars>>

\* the provider raises while chat waits for the next event: chat, with no
\* handler, raises to run_agent, which has none for this fault either
LoopFault ==
    /\ pc = "looping"
    /\ pc' = "faulted"
    /\ UNCHANGED <<pmVars, tools, messages, tool_calls, results, idx, max_turns, nstream,
                   turns, executed, files, disk, lastExec, status, loopVars, streamVars>>

NextPonder ==
    \/ ChatBegin
    \/ InputEOF
    \/ LoopBegin
    \/ LoopEvent
    \/ PonderFire
    \/ LoopEnd
    \/ LoopFault
    \/ HandleCall
    \/ AnswerPrompt
    \/ PromptInterrupt

SpecPonder == Init /\ [][NextPonder]_vars

-----------------------------------------------------------------------------
(* run_agent composing any hook modules, and the summary it prints         *)

\* the most hooks on a command line
MaxHooks == 2

\* a hook module that adds a read-only tool whose class leaves
\* requires_permission at the default of Tool (tools/base.py, line 17)
ListDirHook ==
    [attrs |-> {"TOOLS"},
     TOOLS |-> <<"list_dir">>, REMOVE_TOOLS |-> {},
     PATH_BASED |-> {}, AUTO_ALLOW_CWD |-> {},
     AUTO_ALLOW |-> {}, REJECT_PROMPTS |-> FALSE]

\* a hook module that adds a shell tool of its own under the name bash
SandboxHook ==
    [attrs |-> {"TOOLS"},
     TOOLS |-> <<"bash">>, REMOVE_TOOLS |-> {},
     PATH_BASED |-> {}, AUTO_ALLOW_CWD |-> {},
     AUTO_ALLOW |-> {}, REJECT_PROMPTS |-> FALSE]

\* the hook modules a run may load
AnyHooks == {DafnyHook, BenchHook, ListDirHook, SandboxHook}

\* summarize_tools_and_permissions, lines 26-29
tool_names == {tools[i] : i \in 1..Len(tools)}
auto_all == tool_names \cap auto_allow
auto_cwd == (tool_names \cap auto_allow_cwd) \ auto_all
need_perm == (tool_names \ auto_cwd) \ auto_all

\* the calls checked
HookShapes ==
    { Call("bash", {<<"command", CmdLs>>}),
      Call("write_file", {<<"path", PathA>>, <<"content", Txt>>}),
      Call("write_file", {<<"path", PathEtc>>, <<"content", Txt>>}),
      Call("read_file", {<<"path", PathA>>}),
      Call("web_fetch", {<<"url", Txt>>}),
      Call("dafny_verify", {<<"path", PathA>>}),
      Call("list_dir", {<<"path", PathA>>}) }

\* run_agent, lines 232-279, for any hooks
InitHooks ==
    /\ \E hooks \in SeqsUpTo(AnyHooks, MaxHooks) :
          LET cfg == ComposeConfig(DefaultConfig, hooks) IN
          /\ loaded_hooks = hooks
          /\ tools = ComposeTools(get_default_tools, hooks)
          /\ path_based = cfg.path_based
          /\ auto_allow_cwd = cfg.auto_allow_cwd
          /\ auto_allow = cfg.auto_allow
          /\ reject_prompts = cfg.reject_prompts
    /\ allowed_tools = {}
    /\ allowed_bash_commands = {}
    /\ allowed_paths = <<>>
    /\ allow_all = FALSE
    /\ pending = NoCall
    /\ lastCheck = NoCheck
    /\ granted = {}
    /\ messages = <<>>
    /\ pc = "idle"
    /\ tool_calls = <<>>
    /\ results = <<>>
    /\ idx = 0
    /\ max_turns = 0
    /\ nstream = 0
    /\ turns = 0
    /\ executed = <<>>
    /\ files = InitialFiles
    /\ disk = InitialContent
    /\ lastExec = NoExec
    /\ NoStream
    /\ NoLoop

\* permissions.check for a call of a registered tool
HookCheck ==
    /\ \E c \in HookShapes : Registered(c.name) /\ CheckEnter(c.name, c.args)
    /\ UNCHANGED <<agentVars, streamVars, status, loopVars>>

NextHooks == HookCheck \/ PMAnswer \/ PMRaise

SpecHooks == InitHooks /\ [][NextHooks]_vars

-----------------------------------------------------------------------------
(* Provider.stream of the five backends: the generator consumes the chunks *)
(* of the backend's stream one by one and yields StreamEvents              *)

\* a stream has at most MaxChunks chunks and starts at most MaxToolUses calls
MaxChunks == 4
MaxToolUses == 2

Providers == {"openai_compatible", "ollama", "vertex", "google", "bedrock"}

\* the tools a response calls
StreamNames == {"bash", "read_file"}

\* argument text arrives in fragments; the text <<FragHead, FragTail>> is the
\* JSON of {"command": "ls"}, any other non-empty text is not JSON
FragHead == "{command:"
FragTail == "ls}"
ArgFrags == {<<FragHead>>, <<FragTail>>}
IsJson(text) == text = <<FragHead, FragTail>>

\* json.loads(text), for text that is JSON (it raises JSONDecodeError otherwise)
json_loads(text) == IF IsJson(text) THEN {<<"command", CmdLs>>} ELSE {}

\* the entries of trace: an event yielded, or argument data consumed ("args": a
\* fragment of argument text, "call": a whole call with its arguments)
NoEvent == StreamEvent(<<>>, <<>>, FALSE, "")
Entry(kind, event, index, id, name, fragment) ==
    [kind |-> kind, event |-> event, index |-> index, id |-> id, name |-> name,
     fragment |-> fragment]
Yield(event) == Entry("yield", event, 0, "", "", <<>>)
Consumed(kind) == Entry(kind, NoEvent, 0, "", "", <<>>)

\* a delta of a tool call keyed by index: "args" when it carries a fragment of
\* argument text, "begin" when it carries the id and name only
Delta(chunk) ==
    Entry(IF chunk.fragment # <<>> THEN "args" ELSE "begin", NoEvent, chunk.index,
          chunk.id, chunk.name, chunk.fragment)

\* the events yielded so far, in order
RECURSIVE YieldedIn(_)
YieldedIn(tr) ==
    IF tr = <<>> THEN <<>>
    ELSE IF Head(tr).kind = "yield" THEN <<Head(tr).event>> \o YieldedIn(Tail(tr))
         ELSE YieldedIn(Tail(tr))
Yielded == YieldedIn(trace)

\* an event that carries a stop_reason
IsTerminal(event) == event.stop_reason # ""

\* a chunk of any backend, as the fields the generators read
Chunk(kind, text, index, id, name, fragment, args, reason) ==
    [kind |-> kind, text |-> text, index |-> index, id |-> id, name |-> name,
     fragment |-> fragment, args |-> args, reason |-> reason]

\* the id the backend gives the k-th call it starts in a response (from 0)
BackendId(k) ==
    CASE k = 0 -> "call_0"
      [] k = 1 -> "call_1"
      [] k = 2 -> "call_2"
      [] OTHER -> "call_3"

\* the generator is running and the backend has a chunk to send
StreamOpen(p) == provider = p /\ spos = "open" /\ nchunks < MaxChunks

\* the backend's stream is over
StreamOver(p) == provider = p /\ spos = "open"

\* --- providers/openai_compatible.py ---

\* the chunks an OpenAI-compatible server can send next: text, the first delta
\* of the next tool call (with its id and name), a further argument fragment
\* of a call already begun, the finish_reason, and after it the chunk with
\* usage and no choices
OpenAIChunks ==
    IF final_finish_reason # ""
    THEN {Chunk("usage", <<>>, 0, "", "", <<>>, {}, "")}
    ELSE {Chunk("content", Txt, 0, "", "", <<>>, {}, "")}
         \cup {Chunk("tool_call", <<>>, Cardinality(DOMAIN tool_call_builders),
                     BackendId(Cardinality(DOMAIN tool_call_builders)), n, f, {}, "") :
                  n \in {m \in StreamNames :
                            Cardinality(DOMAIN tool_call_builders) < MaxToolUses},
                  f \in ArgFrags \cup {<<>>}}
         \cup {Chunk("tool_call", <<>>, i, "", "", f, {}, "") :
                  i \in DOMAIN tool_call_builders, f \in ArgFrags}
         \cup {Chunk("finish", <<>>, 0, "", "", <<>>, {}, r) : r \in {"stop", "tool_calls"}}

\* BuilderAfter as it would be if a fragment went to the call begun last,
\* whatever the index of its delta
BuilderAfter_LastBegun(b, chunk) ==
    LET target == IF chunk.index \in DOMAIN b
                  THEN CHOOSE k \in DOMAIN b : \A j \in DOMAIN b : j <= k
                  ELSE chunk.index
        old == IF target \in DOMAIN b THEN b[target]
               ELSE [id |-> chunk.id, name |-> "", arguments |-> <<>>]
    IN  [i \in DOMAIN b \cup {target} |->
            IF i = target
            THEN [id |-> IF chunk.id # "" THEN chunk.id ELSE old.id,
                  name |-> IF chunk.name # "" THEN chunk.name ELSE old.name,
                  arguments |-> old.arguments \o chunk.fragment]
            ELSE b[i]]

\* lines 130-149: one tc_delta of delta.tool_calls
BuilderAfter(b, chunk) ==
    LET old == IF chunk.index \in DOMAIN b THEN b[chunk.index]
               ELSE [id |-> chunk.id, name |-> "", arguments |-> <<>>]
    IN  [i \in DOMAIN b \cup {chunk.index} |->
            IF i = chunk.index
            THEN [id |-> IF chunk.id # "" THEN chunk.id ELSE old.id,
                  name |-> IF chunk.name # "" THEN chunk.name ELSE old.name,
                  arguments |-> old.arguments \o chunk.fragment]
            ELSE b[i]]

\* lines 113-149: the body of the loop, for one chunk
OpenAIChunk ==
    /\ StreamOpen("openai_compatible")
    /\ \E chunk \in OpenAIChunks :
          /\ tool_call_builders' =
                IF chunk.kind = "tool_call" THEN BuilderAfter(tool_call_builders, chunk)
                ELSE tool_call_builders
          /\ final_finish_reason' =
                IF chunk.kind = "finish" THEN chunk.reason ELSE final_finish_reason
          /\ trace' = trace
                \o (IF chunk.kind = "content"
                    THEN <<Yield(StreamEvent(chunk.text, <<>>, FALSE, ""))>> ELSE <<>>)
                \o (IF chunk.kind = "tool_call" /\ DOMAIN tool_call_builders = {}
                    THEN <<Yield(StreamEvent(<<>>, <<>>, TRUE, ""))>> ELSE <<>>)
                \o (IF chunk.kind = "tool_call" THEN <<Delta(chunk)>> ELSE <<>>)
    /\ nchunks' = nchunks + 1
    /\ UNCHANGED <<provider, spos, stream_calls, current_tool, open_block, final_message>>
    /\ UNCHANGED <<pmVars, agentVars, status, loopVars>>

\* lines 156-168: the calls of the builders, by ascending index; argument text
\* that is not JSON gives the empty mapping
RECURSIVE BuiltCalls(_, _)
BuiltCalls(b, keys) ==
    IF keys = {} THEN <<>>
    ELSE LET i == CHOOSE k \in keys : \A j \in keys : k <= j
             args == IF b[i].arguments # <<>> /\ IsJson(b[i].arguments)
                     THEN json_loads(b[i].arguments) ELSE {}
         IN  <<ToolCall(b[i].id, b[i].name, args)>> \o BuiltCalls(b, keys \ {i})

\* lines 154-175: after the loop
OpenAIEnd ==
    /\ StreamOver("openai_compatible")
    /\ trace' = trace
          \o (IF final_finish_reason # ""
              THEN <<Yield(StreamEvent(<<>>,
                                       BuiltCalls(tool_call_builders,
                                                  DOMAIN tool_call_builders),
                                       FALSE,
                                       IF final_finish_reason = "tool_calls"
                                       THEN "tool_use" ELSE "end_turn"))>>
              ELSE <<>>)
    /\ spos' = "returned"
    /\ UNCHANGED <<provider, nchunks, tool_call_builders, final_finish_reason, stream_calls,
                   current_tool, open_block, final_message>>
    /\ UNCHANGED <<pmVars, agentVars, status, loopVars>>

\* --- providers/ollama.py and providers/google.py ---

\* a chunk carries text or not, at most one whole tool call with its arguments,
\* and (Ollama) the done flag or not
WholeChunks(dones) ==
    {Chunk("message", t, 0, "", n, <<>>, IF n = "" THEN {} ELSE a, d) :
        t \in {<<>>, Txt}, n \in StreamNames \cup {""},
        a \in {{}, {<<"command", CmdLs>>}}, d \in dones}

\* the terminal event Ollama yielded for a done chunk: no chunk follows it
OllamaDone == \E i \in 1..Len(trace) : trace[i].kind = "yield" /\ IsTerminal(trace[i].event)

\* ollama.py, lines 90-118: the body of the loop, for one chunk
OllamaChunk ==
    /\ StreamOpen("ollama")
    /\ ~OllamaDone
    /\ \E chunk \in WholeChunks({"", "done"}) :
          LET calls == IF chunk.name # ""
                       THEN Append(stream_calls, ToolCall(chunk.name, chunk.name, chunk.args))
                       ELSE stream_calls
          IN  /\ chunk.name # "" => Len(stream_calls) < MaxToolUses
              /\ stream_calls' = calls
              /\ trace' = trace
                    \o (IF chunk.text # <<>>
                        THEN <<Yield(StreamEvent(chunk.text, <<>>, FALSE, ""))>> ELSE <<>>)
                    \o (IF chunk.name # "" THEN <<Consumed("call")>> ELSE <<>>)
                    \o (IF chunk.reason = "done"
                        THEN <<Yield(StreamEvent(<<>>, calls, FALSE,
                                                 IF calls # <<>> THEN "tool_use"
                                                 ELSE "end_turn"))>>
                        ELSE <<>>)
    /\ nchunks' = nchunks + 1
    /\ UNCHANGED <<provider, spos, tool_call_builders, final_finish_reason, current_tool,
                   open_block, final_message>>
    /\ UNCHANGED <<pmVars, agentVars, status, loopVars>>

\* ollama.py: the loop ends with the backend's stream and nothing follows it
OllamaEnd ==
    /\ StreamOver("ollama")
    /\ spos' = "returned"
    /\ UNCHANGED <<provider, nchunks, trace, tool_call_builders, final_finish_reason,
                   stream_calls, current_tool, open_block, final_message>>
    /\ UNCHANGED <<pmVars, agentVars, status, loopVars>>

\* google.py, lines 115-132: the body of the loop, for one chunk
GoogleChunk ==
    /\ StreamOpen("google")
    /\ \E chunk \in WholeChunks({""}) :
          /\ chunk.name # "" => Len(stream_calls) < MaxToolUses
          /\ stream_calls' =
                IF chunk.name # ""
                THEN Append(stream_calls, ToolCall(chunk.name, chunk.name, chunk.args))
                ELSE stream_calls
          /\ trace' = trace
                \o (IF chunk.text # <<>>
                    THEN <<Yield(StreamEvent(chunk.text, <<>>, FALSE, ""))>> ELSE <<>>)
                \o (IF chunk.name # "" THEN <<Consumed("call")>> ELSE <<>>)
    /\ nchunks' = nchunks + 1
    /\ UNCHANGED <<provider, spos, tool_call_builders, final_finish_reason, current_tool,
                   open_block, final_message>>
    /\ UNCHANGED <<pmVars, agentVars, status, loopVars>>

\* google.py, lines 134-139: after the loop
GoogleEnd ==
    /\ StreamOver("google")
    /\ trace' = Append(trace,
                       Yield(StreamEvent(<<>>, stream_calls, FALSE,
                                         IF stream_calls # <<>> THEN "tool_use"
                                         ELSE "end_turn")))
    /\ spos' = "returned"
    /\ UNCHANGED <<provider, nchunks, tool_call_builders, final_finish_reason, stream_calls,
                   current_tool, open_block, final_message>>
    /\ UNCHANGED <<pmVars, agentVars, status, loopVars>>

\* --- providers/vertex.py and providers/bedrock.py ---

\* the events of a stream of content blocks: a block starts (text, or tool_use
\* with id and name), gets deltas of its type, and stops; stop is the kind of
\* the event that ends the message and carries the stop reason
BlockEvents(stop) ==
    IF open_block = ""
    THEN {Chunk("start", <<>>, 0, "", "", <<>>, {}, "")}
         \cup {Chunk("start", <<>>, 0, BackendId(Len(stream_calls)), n, <<>>, {}, "") :
                  n \in {m \in StreamNames : Len(stream_calls) < MaxToolUses}}
         \cup {Chunk(stop, <<>>, 0, "", "", <<>>, {}, r) : r \in {"end_turn", "tool_use"}}
    ELSE IF open_block = "text"
         THEN {Chunk("text_delta", Txt, 0, "", "", <<>>, {}, ""),
               Chunk("stop", <<>>, 0, "", "", <<>>, {}, "")}
         ELSE {Chunk("json_delta", <<>>, 0, "", "", f, {}, "") : f \in ArgFrags}
              \cup {Chunk("stop", <<>>, 0, "", "", <<>>, {}, "")}

\* the block open after an event
OpenAfter(event) ==
    IF event.kind = "start" THEN (IF event.name # "" THEN "tool" ELSE "text")
    ELSE IF event.kind = "stop" THEN "" ELSE open_block

\* vertex.py, lines 113-122, and bedrock.py, lines 118-126: a block stops; the
\* argument text of a tool block is parsed, and json.loads raises on text that
\* is not JSON
StopRaises == current_tool.id # "" /\ current_tool.input # <<>> /\ ~IsJson(current_tool.input)
CallsAfterStop ==
    IF current_tool.id # "" /\ current_tool.name # ""
    THEN Append(stream_calls,
                ToolCall(current_tool.id, current_tool.name,
                         IF current_tool.input # <<>> THEN json_loads(current_tool.input)
                         ELSE {}))
    ELSE stream_calls

\* the locals current_tool_id, _name, _input and tool_calls after an event
BlockLocals(event) ==
    /\ current_tool' =
          IF event.kind = "start" /\ event.name # ""
          THEN [id |-> event.id, name |-> event.name, input |-> <<>>]
          ELSE IF event.kind = "json_delta"
               THEN [current_tool EXCEPT !.input = @ \o event.fragment]
               ELSE IF event.kind = "stop" /\ current_tool.id # "" /\ current_tool.name # ""
                         /\ ~StopRaises
                    THEN [current_tool EXCEPT !.id = "", !.name = ""]
                    ELSE current_tool
    /\ stream_calls' =
          IF event.kind = "stop" /\ ~StopRaises THEN CallsAfterStop ELSE stream_calls
    /\ spos' = IF event.kind = "stop" /\ StopRaises THEN "raised" ELSE spos
    /\ open_block' = OpenAfter(event)

\* the message_stop event has made the SDK's final message snapshot
VertexStopped == final_message # ""

\* vertex.py, lines 97-125: the body of the loop, for one event
VertexEvent ==
    /\ StreamOpen("vertex")
    /\ ~VertexStopped
    /\ \E event \in BlockEvents("message_stop") :
          /\ BlockLocals(event)
          /\ final_message' = IF event.kind = "message_stop" THEN event.reason
                              ELSE final_message
          /\ trace' = trace
                \o (IF event.kind = "start" /\ event.name # ""
                    THEN <<Yield(StreamEvent(<<>>, <<>>, TRUE, ""))>> ELSE <<>>)
                \o (IF event.kind = "text_delta"
                    THEN <<Yield(StreamEvent(event.text, <<>>, FALSE, ""))>> ELSE <<>>)
                \o (IF event.kind = "json_delta" THEN <<Consumed("args")>> ELSE <<>>)
    /\ nchunks' = nchunks + 1
    /\ UNCHANGED <<provider, tool_call_builders, final_finish_reason>>
    /\ UNCHANGED <<pmVars, agentVars, status, loopVars>>

\* vertex.py, lines 127-134: after the loop; stream.get_final_message() on a
\* stream that ended without message_stop either raises or gives no message
VertexEnd ==
    /\ StreamOver("vertex")
    /\ \/ /\ trace' = Append(trace,
                             Yield(StreamEvent(<<>>, stream_calls, FALSE,
                                               IF VertexStopped THEN final_message
                                               ELSE "end_turn")))
          /\ spos' = "returned"
       \/ /\ ~VertexStopped
          /\ spos' = "raised"
          /\ UNCHANGED trace
    /\ UNCHANGED <<provider, nchunks, tool_call_builders, final_finish_reason, stream_calls,
                   current_tool, open_block, final_message>>
    /\ UNCHANGED <<pmVars, agentVars, status, loopVars>>

\* the terminal event Bedrock yielded for messageStop: only metadata follows it
BedrockStopped ==
    \E i \in 1..Len(trace) : trace[i].kind = "yield" /\ IsTerminal(trace[i].event)

\* bedrock.py, lines 103-133: the body of the loop, for one event
BedrockEvent ==
    /\ StreamOpen("bedrock")
    /\ \E event \in IF BedrockStopped THEN {Chunk("metadata", <<>>, 0, "", "", <<>>, {}, "")}
                     ELSE BlockEvents("messageStop") :
          /\ BlockLocals(event)
          /\ trace' = trace
                \o (IF event.kind = "text_delta"
                    THEN <<Yield(StreamEvent(event.text, <<>>, FALSE, ""))>> ELSE <<>>)
                \o (IF event.kind = "json_delta" THEN <<Consumed("args")>> ELSE <<>>)
                \o (IF event.kind = "messageStop"
                    THEN <<Yield(StreamEvent(<<>>, stream_calls, FALSE, event.reason))>>
                    ELSE <<>>)
    /\ nchunks' = nchunks + 1
    /\ UNCHANGED <<provider, tool_call_builders, final_finish_reason, final_message>>
    /\ UNCHANGED <<pmVars, agentVars, status, loopVars>>

\* bedrock.py: the loop ends with the backend's stream and nothing follows it
BedrockEnd ==
    /\ StreamOver("bedrock")
    /\ spos' = "returned"
    /\ UNCHANGED <<provider, nchunks, trace, tool_call_builders, final_finish_reason,
                   stream_calls, current_tool, open_block, final_message>>
    /\ UNCHANGED <<pmVars, agentVars, status, loopVars>>

\* provider.stream(messages, tools, system) of any backend is called
InitStream ==
    /\ provider \in Providers
    /\ spos = "open"
    /\ FreshLocals
    /\ loaded_hooks = <<>>
    /\ path_based = DEFAULT_PATH_BASED
    /\ auto_allow_cwd = DEFAULT_AUTO_ALLOW_CWD
    /\ auto_allow = DEFAULT_AUTO_ALLOW
    /\ reject_prompts = FALSE
    /\ allowed_tools = {}
    /\ allowed_bash_commands = {}
    /\ allowed_paths = <<>>
    /\ allow_all = FALSE
    /\ pending = NoCall
    /\ lastCheck = NoCheck
    /\ granted = {}
    /\ tools = get_default_tools
    /\ messages = <<UserMessage(Txt)>>
    /\ pc = "streaming"
    /\ tool_calls = <<>>
    /\ results = <<>>
    /\ idx = 0
    /\ max_turns = 0
    /\ nstream = 0
    /\ turns = 0
    /\ executed = <<>>
    /\ files = InitialFiles
    /\ disk = InitialContent
    /\ lastExec = NoExec
    /\ status = "Answering..."
    /\ pondering_task = "none"
    /\ live_tasks = 0
    /\ stream_events = <<>>
    /\ nevents = 0
    /\ response_text = <<>>

NextStream ==
    \/ OpenAIChunk
    \/ OpenAIEnd
    \/ OllamaChunk
    \/ OllamaEnd
    \/ GoogleChunk
    \/ GoogleEnd
    \/ VertexEvent
    \/ VertexEnd
    \/ BedrockEvent
    \/ BedrockEnd

SpecStream == InitStream /\ [][NextStream]_vars

-----------------------------------------------------------------------------
(* The converters of the message log to each backend's wire format         *)

\* a message of any wire format, as role, text, the tool calls and the tool
\* results it carries; NoId where the format has no field for the id
NoId == <<>>
WireMessage(role, content, calls, res) ==
    [role |-> role, content |-> content, calls |-> calls, results |-> res]
WireCall(id, name, args) == [id |-> id, name |-> name, args |-> args]
WireResult(id, content) == [id |-> id, content |-> content]

\* openai_compatible.py, lines 56-81: the wire messages of one log message
OpenAIGroup(msg) ==
    (IF msg.content # <<>> THEN <<WireMessage(msg.role, msg.content, <<>>, <<>>)>> ELSE <<>>)
    \o [i \in 1..Len(msg.tool_calls) |->
          WireMessage("assistant", <<>>,
                      <<WireCall(msg.tool_calls[i].id, msg.tool_calls[i].name,
                                 msg.tool_calls[i].args)>>, <<>>)]
    \o [i \in 1..Len(msg.tool_results) |->
          WireMessage("tool", msg.tool_results[i].content, <<>>,
                      <<WireResult(msg.tool_results[i].tool_call_id,
                                   msg.tool_results[i].content)>>)]

\* ollama.py, lines 52-75: calls go by name and results by content alone
OllamaGroup(msg) ==
    (IF msg.content # <<>> THEN <<WireMessage(msg.role, msg.content, <<>>, <<>>)>> ELSE <<>>)
    \o [i \in 1..Len(msg.tool_calls) |->
          WireMessage("assistant", <<>>,
                      <<WireCall(NoId, msg.tool_calls[i].name, msg.tool_calls[i].args)>>,
                      <<>>)]
    \o [i \in 1..Len(msg.tool_results) |->
          WireMessage("tool", msg.tool_results[i].content, <<>>,
                      <<WireResult(NoId, msg.tool_results[i].content)>>)]

\* google.py, lines 70-90: one Content per message that has parts; a function
\* call goes by name, a function response is named by the tool_call_id
GoogleGroup(msg) ==
    IF msg.content = <<>> /\ msg.tool_calls = <<>> /\ msg.tool_results = <<>>
    THEN <<>>
    ELSE <<WireMessage(IF msg.role = "assistant" THEN "model" ELSE "user", msg.content,
                       [i \in 1..Len(msg.tool_calls) |->
                          WireCall(NoId, msg.tool_calls[i].name, msg.tool_calls[i].args)],
                       [i \in 1..Len(msg.tool_results) |->
                          WireResult(msg.tool_results[i].tool_call_id,
                                     msg.tool_results[i].content)])>>

\* vertex.py, lines 36-59, and bedrock.py, lines 36-61: one message per message
BlocksGroup(msg) ==
    <<WireMessage(msg.role, msg.content,
                  [i \in 1..Len(msg.tool_calls) |->
                     WireCall(msg.tool_calls[i].id, msg.tool_calls[i].name,
                              msg.tool_calls[i].args)],
                  [i \in 1..Len(msg.tool_results) |->
                     WireResult(msg.tool_results[i].tool_call_id,
                                msg.tool_results[i].content)])>>

WireGroup(backend, msg) ==
    CASE backend = "openai_compatible" -> OpenAIGroup(msg)
      [] backend = "ollama" -> OllamaGroup(msg)
      [] backend = "google" -> GoogleGroup(msg)
      [] OTHER -> BlocksGroup(msg)

\* the wire format of a log: the groups of its messages, in order
RECURSIVE ToWire(_, _)
ToWire(backend, log) ==
    IF log = <<>> THEN <<>> ELSE WireGroup(backend, Head(log)) \o ToWire(backend, Tail(log))

-----------------------------------------------------------------------------
(* Properties                                                              *)

\* the last completed check, and the canonical path and the command it was about
Done == lastCheck.result # "none"
Silent == lastCheck.result = "allow" /\ ~lastCheck.prompted
LCPath == Resolve(Get(lastCheck.args, "path", <<".">>))
LCCommand == Get(lastCheck.args, "command", <<>>)

\* the tool-result message res answers the calls of the assistant message msg
Answers(msg, res) ==
    /\ res.role = "user"
    /\ res.tool_calls = <<>>
    /\ Len(res.tool_results) = Len(msg.tool_calls)
    /\ \A j \in 1..Len(msg.tool_calls) :
          res.tool_results[j].tool_call_id = msg.tool_calls[j].id

\* C1: once chat is through with a batch of N tool calls (whatever mix of unknown,
\* denied and executed calls it holds, the operator not having interrupted it),
\* the log holds, right after the assistant message of the batch, one tool-result
\* message with N results, the i-th carrying the id of the i-th call.
C1_OneResultPerCall ==
    (pc \in {"idle", "streaming", "faulted", "exited"} /\ lastCheck.result # "raise")
    => \A i \in 1..Len(messages) :
          messages[i].tool_calls # <<>>
          => i < Len(messages) /\ Answers(messages[i], messages[i + 1])

\* C2: with a turn limit configured, a chat makes at most that many provider
\* requests (it stops in turn_limit_reached instead of streaming again).
C2_TurnLimit == (max_turns > 0 /\ pc # "faulted") => turns <= max_turns

\* C3: a prompt answered with the allow-all answer 'A' makes check return allow
\* and sets allow_all.
C3_AllowAllAnswer ==
    (Done /\ lastCheck.prompted /\ lastCheck.answer = AnsAll)
    => (lastCheck.result = "allow" /\ allow_all)

\* C4: a check that starts with allow_all set returns allow without prompting,
\* for every tool and argument mapping, also under reject_prompts; and no prompt
\* is open while allow_all is set.
C4_AllowAllSupersedes ==
    /\ (Done /\ lastCheck.pre.allow_all) => Silent
    /\ allow_all => ~pending.active

C4_Witness ==
    /\ Done /\ lastCheck.pre.allow_all /\ reject_prompts
    /\ lastCheck.tool = "bash" /\ Silent

\* rules 1-3 and the auto-allow-cwd half of rule 5, for the last completed check
LCOtherRule ==
    \/ ~RequiresPermission(lastCheck.tool)
    \/ lastCheck.pre.allow_all
    \/ lastCheck.tool \in auto_allow
    \/ /\ lastCheck.tool \in path_based
       /\ lastCheck.tool \in auto_allow_cwd
       /\ IsRelativeTo(LCPath, Cwd)

LCPathTool == lastCheck.tool \in path_based /\ lastCheck.tool # BashName

\* C5: a check of a path-based tool whose canonical path was granted to that tool
\* by an earlier 'always' answer returns allow without prompting; and a check of
\* a path-based tool for a canonical path not granted to it is allowed without
\* prompting only by another rule.
C5_PathGrant ==
    (Done /\ LCPathTool)
    => /\ <<lastCheck.tool, "path", LCPath>> \in lastCheck.gpre => Silent
       /\ (Silent /\ <<lastCheck.tool, "path", LCPath>> \notin lastCheck.gpre)
             => LCOtherRule

\* granted for a.txt, then asked for ./a.txt
C5_Witness ==
    /\ Done /\ lastCheck.tool = "write_file" /\ Silent
    /\ Get(lastCheck.args, "path", <<>>) = PathDotA
    /\ lastCheck.gpre = {<<"write_file", "path", <<"w", "a.txt">>>>}
    /\ ~LCOtherRule

\* C6: a check of path-based tool T2 for canonical path P, P granted to another
\* tool T1 and not to T2, is not allowed without prompting unless another rule
\* allows it.
C6_GrantPerTool ==
    (/\ Done /\ LCPathTool
     /\ \E g \in lastCheck.gpre : g[1] # lastCheck.tool /\ g[2] = "path" /\ g[3] = LCPath
     /\ <<lastCheck.tool, "path", LCPath>> \notin lastCheck.gpre
     /\ ~LCOtherRule)
    => ~Silent

C6_Witness ==
    /\ Done /\ lastCheck.tool = "edit_file" /\ lastCheck.prompted
    /\ <<"write_file", "path", LCPath>> \in lastCheck.gpre
    /\ ~LCOtherRule

\* C7: a bash check whose command was granted by an earlier 'always' answer is
\* allowed without prompting; a bash check with any other command prompts again
\* (or is auto-denied under reject_prompts) unless rules 2 or 3 allow it.
C7_ExactCommand ==
    (Done /\ lastCheck.tool = BashName)
    => /\ <<BashName, "command", LCCommand>> \in lastCheck.gpre => Silent
       /\ (/\ <<BashName, "command", LCCommand>> \notin lastCheck.gpre
           /\ ~lastCheck.pre.allow_all
           /\ BashName \notin auto_allow)
          => IF reject_prompts THEN lastCheck.result = "deny" /\ ~lastCheck.prompted
             ELSE lastCheck.prompted

\* granted for "ls", then asked for "ls -l"
C7_Witness ==
    /\ Done /\ lastCheck.tool = BashName /\ LCCommand = CmdLsL /\ lastCheck.prompted
    /\ <<BashName, "command", CmdLs>> \in lastCheck.gpre

\* the rules of the precedence list on session state ss, as the claim words them
PathsIn(ss, tool) ==
    IF tool \in DOMAIN ss.allowed_paths THEN ss.allowed_paths[tool] ELSE {}
Rule1(tool) == ~RequiresPermission(tool)
Rule2(ss) == ss.allow_all
Rule3(tool) == tool \in auto_allow
Rule4(ss, tool, args) ==
    tool = BashName /\ Get(args, "command", <<>>) \in ss.allowed_bash_commands
Rule5(ss, tool, args) ==
    /\ tool \in path_based
    /\ \/ Resolve(Get(args, "path", <<".">>)) \in PathsIn(ss, tool)
       \/ tool \in auto_allow_cwd /\ IsRelativeTo(Resolve(Get(args, "path", <<".">>)), Cwd)
Rule6(ss, tool) == tool \in ss.allowed_tools

SixRules(ss, tool, args) ==
    \/ Rule1(tool) \/ Rule2(ss) \/ Rule3(tool)
    \/ Rule4(ss, tool, args) \/ Rule5(ss, tool, args) \/ Rule6(ss, tool)

\* rules 4-6 as alternatives by the kind of tool
SixRulesByKind(ss, tool, args) ==
    \/ Rule1(tool) \/ Rule2(ss) \/ Rule3(tool)
    \/ Rule4(ss, tool, args)
    \/ tool # BashName /\ Rule5(ss, tool, args)
    \/ tool # BashName /\ tool \notin path_based /\ Rule6(ss, tool)

\* C8 as claimed: check allows without prompting exactly when one of the six
\* rules matches, rule 6 applying to every tool.
C8_SixRules ==
    /\ Done => (Silent <=> SixRules(lastCheck.pre, lastCheck.tool, lastCheck.args))
    /\ pending.active => ~SixRules(Session, pending.tool, pending.args)

\* C8 as amended: check allows without prompting exactly when rule 1, 2 or 3
\* matches, or the one of rules 4-6 that the kind of tool selects: rule 4 for
\* the shell tool, rule 5 for a path-based tool that is not the shell tool,
\* rule 6 for a tool that is neither.
C8_SixRulesByKind ==
    /\ Done => (Silent <=> SixRulesByKind(lastCheck.pre, lastCheck.tool, lastCheck.args))
    /\ pending.active => ~SixRulesByKind(Session, pending.tool, pending.args)

\* bash is in allowed_tools and a bash call was prompted for all the same
C8_Witness ==
    /\ Done /\ lastCheck.tool = BashName /\ lastCheck.prompted
    /\ BashName \in lastCheck.pre.allowed_tools

\* C9: under reject_prompts no prompt is ever open, no check prompts, a check
\* that no rule allows returns deny, and the session state stays as it was.
C9_AutoDeny ==
    reject_prompts
    => /\ ~pending.active
       /\ Done => /\ ~lastCheck.prompted
                  /\ lastCheck.pre = Session
                  /\ ~SixRulesByKind(lastCheck.pre, lastCheck.tool, lastCheck.args)
                        => lastCheck.result = "deny"

C9_Witness ==
    /\ reject_prompts /\ Done /\ lastCheck.result = "deny" /\ lastCheck.tool = "web_fetch"
    /\ ~SixRulesByKind(lastCheck.pre, lastCheck.tool, lastCheck.args)

\* C10: the session state is empty at startup, and every step only adds to
\* allowed_tools, allowed_bash_commands and each allowed_paths[tool], and never
\* resets allow_all.
SessionGrows ==
    /\ allowed_tools \subseteq allowed_tools'
    /\ allowed_bash_commands \subseteq allowed_bash_commands'
    /\ \A t \in DOMAIN allowed_paths :
          t \in DOMAIN allowed_paths' /\ allowed_paths[t] \subseteq allowed_paths'[t]
    /\ allow_all => allow_all'

C10_Monotone == Session = EmptySession /\ [][SessionGrows]_vars

C10_Witness ==
    /\ allowed_bash_commands = {CmdLs}
    /\ allowed_tools = {"web_fetch"}

\* the answer of the last completed check took the 'always' branch
LCAlways == Done /\ lastCheck.prompted /\ PromptBranch(lastCheck.answer) = "always"

\* C11: after a prompt answered 'always', the session state is the state at the
\* start of the check plus one element: the call's command in
\* allowed_bash_commands for the shell tool, else the call's canonical path in
\* allowed_paths[tool] for a path-based tool, else the tool's name in
\* allowed_tools; the other session sets and allow_all are as they were.
C11_FinestScope ==
    LCAlways
    => LET pre == lastCheck.pre
           tool == lastCheck.tool
           kind == IF tool = BashName THEN "command"
                   ELSE IF tool \in path_based THEN "path" ELSE "tool"
       IN  /\ allow_all = pre.allow_all
           /\ allowed_bash_commands =
                 pre.allowed_bash_commands \cup (IF kind = "command" THEN {LCCommand} ELSE {})
           /\ \A t \in ToolNames \cup DOMAIN allowed_paths \cup DOMAIN pre.allowed_paths :
                 PathsIn(Session, t) =
                    PathsIn(pre, t) \cup (IF kind = "path" /\ t = tool THEN {LCPath} ELSE {})
           /\ allowed_tools = pre.allowed_tools \cup (IF kind = "tool" THEN {tool} ELSE {})

\* 'always' for write_file ./a.txt after 'always' for bash ls
C11_Witness ==
    /\ LCAlways /\ lastCheck.tool = "write_file"
    /\ Get(lastCheck.args, "path", <<>>) = PathDotA
    /\ lastCheck.pre.allowed_bash_commands = {CmdLs}
    /\ allowed_paths = [t \in {"write_file"} |-> {<<"w", "a.txt">>}]
    /\ allowed_tools = lastCheck.pre.allowed_tools

\* the step handles the current call of the batch to its end: its result joins
\* the results, and chat goes on with the next call of the batch or, after the
\* last one, appends the tool-result message of the batch
CallDone ==
    IF idx = Len(tool_calls)
    THEN /\ pc' = "streaming"
         /\ Len(messages') = Len(messages) + 1
         /\ SubSeq(messages', 1, Len(messages)) = messages
         /\ messages'[Len(messages')].role = "user"
         /\ messages'[Len(messages')].tool_results # <<>>
         /\ SubSeq(messages'[Len(messages')].tool_results, 1, idx - 1) = results
    ELSE /\ pc' = "executing"
         /\ idx' = idx + 1
         /\ tool_calls' = tool_calls
         /\ messages' = messages
         /\ SubSeq(results', 1, idx - 1) = results

\* the result that joined in a step satisfying CallDone
NewResult ==
    IF idx = Len(tool_calls)
    THEN LET rs == messages'[Len(messages')].tool_results IN
         IF Len(rs) = idx THEN rs[idx] ELSE ToolResult(<<>>, <<>>, FALSE)
    ELSE IF Len(results') = idx THEN results'[idx] ELSE ToolResult(<<>>, <<>>, FALSE)

\* a step taken at a call whose name is not in the registry
UnknownHandled ==
    (pc = "executing" /\ ~Registered(tool_calls[idx].name))
    => /\ CallDone
       /\ NewResult.tool_call_id = tool_calls[idx].id
       /\ NewResult.is_error
       /\ executed' = executed
       /\ files' = files
       /\ pmVars' = pmVars

\* C12: when chat comes to a call whose name is not in the registry, the step
\* synthesizes an is_error result with the id of the call, executes no tool,
\* leaves the permission engine (session state, prompts, checks) untouched, and
\* goes on with the rest of the batch.
C12_UnknownTool == [][UnknownHandled]_vars

\* a batch of an unknown call and a call that was executed, answered in the log
C12_Witness ==
    \E i \in 2..Len(messages) :
       /\ Len(messages[i].tool_results) = 2
       /\ ~Registered(messages[i - 1].tool_calls[1].name)
       /\ messages[i].tool_results[1].is_error
       /\ messages[i].tool_results[1].content = ErrUnknown
       /\ executed = <<messages[i - 1].tool_calls[2].id>>
       /\ lastCheck.tool = messages[i - 1].tool_calls[2].name

\* a step in which the permission check of the current call returns False, by
\* auto-deny (no prompt) or by a 'no' answer
DenyStep ==
    /\ \/ pc = "executing" /\ Registered(tool_calls[idx].name)
       \/ pc = "prompting"
    /\ pc' # "prompting"
    /\ lastCheck'.result = "deny"

DeniedHandled ==
    DenyStep
    => /\ CallDone
       /\ NewResult.tool_call_id = tool_calls[idx].id
       /\ NewResult.is_error
       /\ executed' = executed
       /\ files' = files

\* C13: when the permission check of a call returns deny (auto-deny or a 'no'
\* answer), the tool is not executed, an is_error result with the id of the call
\* is synthesized, and chat goes on with the rest of the batch.
C13_Denied == [][DeniedHandled]_vars

\* a batch of a call denied by a 'no' answer and a call that was executed
C13_Witness ==
    \E i \in 2..Len(messages) :
       /\ Len(messages[i].tool_results) = 2
       /\ messages[i].tool_results[1].is_error
       /\ messages[i].tool_results[1].content = ErrDenied
       /\ ~messages[i].tool_results[2].is_error
       /\ executed = <<messages[i - 1].tool_calls[2].id>>
       /\ messages[i - 1].tool_calls[1].name = "web_fetch"
       /\ ~reject_prompts

\* chat was ended by an exception raised at line 200, inside the loop over the
\* batch (a fault of provider.stream leaves idx at 0)
ExecuteRaised == pc = "faulted" /\ idx > 0

\* C14: tool.execute(**call.args) never raises to chat, whatever argument
\* mapping the call carries: chat is never ended inside the loop over a batch.
C14_ExecuteReturns == ~ExecuteRaised

\* a step in which the current call's tool was executed and returned its text
ExecutedWrapped ==
    executed' # executed
    => /\ executed' = Append(executed, tool_calls[idx].id)
       /\ CallDone
       /\ NewResult.tool_call_id = tool_calls[idx].id
       /\ NewResult.content = ExecuteText(tool_calls[idx].name, tool_calls[idx].args)
       /\ ~NewResult.is_error

\* C15: the text an executed tool returns is wrapped as a result with
\* is_error=false, also when the text reports a failure such as a file not
\* found, and chat goes on: with the next call of the batch, or after the last
\* one with the tool-result message and the next provider request.
C15_TextNotError == [][ExecutedWrapped]_vars

\* read_file of a path that does not exist, answered in the log and followed by
\* the assistant message of the next provider request
C15_Witness ==
    \E i \in 2..Len(messages) - 1 :
       /\ messages[i - 1].tool_calls # <<>>
       /\ messages[i - 1].tool_calls[1].name = "read_file"
       /\ messages[i].tool_results[1].content = ErrNotFound
       /\ ~messages[i].tool_results[1].is_error
       /\ messages[i + 1].role = "assistant"

\* chat is not running: it has returned, or an exception has ended it
ChatNotRunning == pc \in {"idle", "faulted", "exited"}

\* C16: whenever chat is not running (returned, or ended by a fault of the
\* provider, of a tool or of the permission check), every assistant message of
\* the log that has tool calls is immediately followed by a user-role message
\* whose results answer those calls one-to-one, in order and by id.
C16_LogPaired ==
    ChatNotRunning
    => \A i \in 1..Len(messages) :
          messages[i].tool_calls # <<>>
          => i < Len(messages) /\ Answers(messages[i], messages[i + 1])

\* the log ends with a user-role message that, when the message before it is an
\* assistant message with tool calls, answers those calls
LogAnswered ==
    /\ messages # <<>>
    /\ messages[Len(messages)].role = "user"
    /\ (Len(messages) > 1 /\ messages[Len(messages) - 1].tool_calls # <<>>)
          => Answers(messages[Len(messages) - 1], messages[Len(messages)])

\* a provider request is made only with no batch in progress and the log
\* answered; a tool is executed only as the current call of the batch, with the
\* results of all earlier calls of the batch in
NoPipelining ==
    /\ nstream' # nstream
          => /\ nstream' = nstream + 1
             /\ pc = "streaming"
             /\ tool_calls = <<>> /\ results = <<>>
             /\ LogAnswered
    /\ executed' # executed
          => /\ executed' = Append(executed, tool_calls[idx].id)
             /\ Len(results) = idx - 1
             /\ \A j \in 1..idx - 1 : results[j].tool_call_id = tool_calls[j].id

\* C17: chat never makes a provider request while results of the current batch
\* are outstanding (the tool-result message of the whole batch is in the log
\* first), and executes the calls of a batch one at a time.
C17_NoPipelining == [][NoPipelining]_vars

\* a batch of two executed calls, then the next provider request
C17_Witness ==
    /\ nstream = 2
    /\ Len(executed) = 2
    /\ \E i \in 1..Len(messages) - 1 :
          Len(messages[i].tool_results) = 2 /\ messages[i + 1].role = "assistant"

\* the positions in trace of the terminal events and of the tool_use_started
\* events yielded
TerminalAt == {i \in 1..Len(trace) : trace[i].kind = "yield" /\ IsTerminal(trace[i].event)}
StartedAt == {i \in 1..Len(trace) : trace[i].kind = "yield" /\ trace[i].event.tool_use_started}
YieldAt == {i \in 1..Len(trace) : trace[i].kind = "yield"}

\* C18: for every backend, a stream yields at most one terminal event, and a
\* stream that has ended has yielded exactly one, as its last event, whatever
\* finish or done markers the backend sent.
C18_OneTerminal ==
    /\ Cardinality(TerminalAt) <= 1
    /\ spos = "returned"
          => \E i \in TerminalAt : \A j \in YieldAt : j <= i

\* C19: for every backend, before the generator consumes an argument fragment
\* of a tool call, and before it yields a terminal event that carries tool
\* calls, it has yielded a tool_use_started event.
C19_StartedFirst ==
    \A k \in 1..Len(trace) :
       (\/ trace[k].kind = "args"
        \/ trace[k].kind = "yield" /\ trace[k].event.tool_calls # <<>>)
       => \E j \in StartedAt : j < k

\* C20: within one stream tool_use_started is yielded at most once, however
\* many tool calls the response holds, and never after the terminal event.
C20_StartedOnce ==
    /\ Cardinality(StartedAt) <= 1
    /\ \A j \in StartedAt : \A i \in TerminalAt : j < i

\* the generator raised at the stop of a tool block, where it parses the
\* block's argument text (the block is closed and the tool is still current)
ParseRaised == spos = "raised" /\ open_block = "" /\ current_tool.id # ""

\* C21: argument text that cannot be parsed never aborts the stream: the
\* generator of no backend raises where it parses the argument text of a call.
C21_MalformedDegrades == ~ParseRaised

\* what the backend sent for call index i, by the deltas in trace: the indices
\* begun, the id and the name of the first delta, the fragments in arrival order
IndicesSent == {trace[k].index : k \in {j \in 1..Len(trace) : trace[j].kind \in {"args", "begin"}}}
FirstDelta(i) ==
    trace[CHOOSE k \in 1..Len(trace) :
             /\ trace[k].kind \in {"args", "begin"} /\ trace[k].index = i
             /\ \A j \in 1..k - 1 : ~(trace[j].kind \in {"args", "begin"} /\ trace[j].index = i)]
RECURSIVE TextSent(_, _)
TextSent(tr, i) ==
    IF tr = <<>> THEN <<>>
    ELSE (IF Head(tr).kind = "args" /\ Head(tr).index = i THEN Head(tr).fragment ELSE <<>>)
         \o TextSent(Tail(tr), i)

\* the terminal event, once yielded
Terminal == trace[CHOOSE k \in TerminalAt : TRUE].event

\* C22: in a stream of the OpenAI-compatible backend, whatever the interleaving
\* of the deltas of several calls, the argument text kept for each index is the
\* concatenation of that index's fragments in arrival order; it is kept as text
\* until the stream ends, and the terminal event delivers one ToolCall per
\* index, in index order, with the id and name sent for the index and the
\* arguments parsed from that text.
C22_FragmentsByIndex ==
    provider = "openai_compatible"
    => /\ DOMAIN tool_call_builders = IndicesSent
       /\ \A i \in IndicesSent :
             /\ tool_call_builders[i].arguments = TextSent(trace, i)
             /\ tool_call_builders[i].id = FirstDelta(i).id
             /\ tool_call_builders[i].name = FirstDelta(i).name
       /\ spos = "open" => TerminalAt = {}
       /\ TerminalAt # {}
             => /\ Len(Terminal.tool_calls) = Cardinality(IndicesSent)
                /\ \A i \in IndicesSent :
                      /\ i + 1 \in 1..Len(Terminal.tool_calls)
                      /\ Terminal.tool_calls[i + 1].id = FirstDelta(i).id
                      /\ Terminal.tool_calls[i + 1].name = FirstDelta(i).name
                      /\ Terminal.tool_calls[i + 1].args =
                            (IF TextSent(trace, i) = <<FragHead, FragTail>>
                             THEN {<<"command", CmdLs>>} ELSE {})

\* two calls whose fragments arrive interleaved: index 0, index 1, index 0
C22_Witness ==
    /\ provider = "openai_compatible" /\ spos = "returned" /\ TerminalAt # {}
    /\ Len(Terminal.tool_calls) = 2
    /\ Terminal.tool_calls[1].args = {<<"command", CmdLs>>}
    /\ Terminal.tool_calls[2].args = {}
    /\ \E a, b, c \in 1..Len(trace) :
          /\ a < b /\ b < c
          /\ trace[a].kind = "args" /\ trace[a].index = 0
          /\ trace[b].kind = "args" /\ trace[b].index = 1
          /\ trace[c].kind = "args" /\ trace[c].index = 0

\* C23: the ToolCalls a stream delivers have pairwise distinct ids, for every
\* backend, also when the response calls the same tool twice.
C23_UniqueIds ==
    \A k \in YieldAt :
       LET calls == trace[k].event.tool_calls IN
       \A i, j \in 1..Len(calls) : i # j => calls[i].id # calls[j].id

\* the side of the conversation a wire role stands for
SideOf(role) == IF role \in {"assistant", "model"} THEN "assistant" ELSE "user"

\* the ids the tool results of a wire log and of a log carry, in order
RECURSIVE WireResultIds(_)
WireResultIds(wire) ==
    IF wire = <<>> THEN <<>>
    ELSE [i \in 1..Len(Head(wire).results) |-> Head(wire).results[i].id]
         \o WireResultIds(Tail(wire))
RECURSIVE LogResultIds(_)
LogResultIds(log) ==
    IF log = <<>> THEN <<>>
    ELSE [i \in 1..Len(Head(log).tool_results) |-> Head(log).tool_results[i].tool_call_id]
         \o LogResultIds(Tail(log))

\* C24: for every backend, the wire format of the log has the sides of the log
\* in the log's order (every message of the log is represented), and every
\* tool result of the wire carries the id of the call it answers.
C24_WirePreserves ==
    \A backend \in Providers :
       /\ \A i \in 1..Len(messages) :
             LET group == WireGroup(backend, messages[i]) IN
             /\ group # <<>>
             /\ \A k \in 1..Len(group) : SideOf(group[k].role) = messages[i].role
       /\ WireResultIds(ToWire(backend, messages)) = LogResultIds(messages)

\* a step in which a provider request was made and failed (no assistant message
\* came of it) ends chat with the fault; and nothing follows a fault
FaultPropagates ==
    /\ (nstream' # nstream /\ messages' = messages)
          => /\ pc' = "faulted"
             /\ UNCHANGED <<pmVars, tool_calls, results, idx, executed, files, disk, lastExec>>
    /\ pc # "faulted"

\* C25: a fault of provider.stream ends chat: no message is appended for the
\* failed stream, and no further provider request (no retry) nor any other
\* operation of the run follows it.
C25_FaultPropagates == [][FaultPropagates]_vars

\* the second request of a chat, made after a batch of tool calls, fails
C25_Witness ==
    /\ pc = "faulted" /\ idx = 0 /\ nstream = 2
    /\ Len(messages) = 3
    /\ messages[3].tool_results # <<>>

\* a step in which the operator's interrupt at the permission prompt of a chat
\* is raised out of the check
InterruptStep == pc = "prompting" /\ ~pending'.active /\ lastCheck'.result = "raise"

InterruptReturns == InterruptStep => pc' = "idle"

\* C26: an operator interrupt during a chat ends the chat and leaves run_agent
\* in its input loop, asking for the next user input.
C26_InterruptReturns == [][InterruptReturns]_vars

\* the last execute of edit_file: the file it named and the occurrences of
\* old_string in that file before the call
EditedPath == Opened(Get(lastExec.args, "path", <<>>))
EditedCount ==
    IF EditedPath \in DOMAIN lastExec.before
    THEN Count(lastExec.before[EditedPath], Get(lastExec.args, "old_string", <<>>))
    ELSE 0
EditFailed ==
    lastExec.text \in {ErrNotFound, ErrNotAFile, ErrOldNotFound, ErrAppears(EditedCount)}

\* C27: edit_file without replace_all on a file where old_string occurs more
\* than once returns the error text that reports the number of occurrences and
\* leaves the content of every file as it was; so does every other error
\* outcome (file not found, not a file, old_string not found)
C27_EditErrorsWriteNothing ==
    lastExec.tool = "edit_file" =>
        /\ (EditedCount > 1 /\ ~Get(lastExec.args, "replace_all", FALSE))
               => lastExec.text = ErrAppears(EditedCount)
        /\ EditFailed => disk = lastExec.before

\* an edit of x in the file xx, without replace_all, was refused with the
\* count 2 and the file still reads xx
C27_Witness ==
    /\ lastExec.tool = "edit_file"
    /\ EditedPath = <<"w", "a.txt">>
    /\ lastExec.before[EditedPath] = <<"x", "x">>
    /\ Get(lastExec.args, "old_string", <<>>) = <<"x">>
    /\ "replace_all" \notin Keys(lastExec.args)
    /\ lastExec.text = ErrAppears(2)
    /\ disk[EditedPath] = <<"x", "x">>

\* the log after a step holds the log before it, message for message
LogExtended ==
    /\ Len(messages') >= Len(messages)
    /\ \A i \in 1..Len(messages) : messages'[i] = messages[i]

\* C28: the message log is append-only: no step of any chat removes, reorders
\* or changes a message already in the log (its content, tool_calls and
\* tool_results), and the length of the log never decreases
C28_AppendOnly == [][LogExtended]_vars

\* a second chat has run a tool on the log of a first chat: the log holds the
\* first chat's user and assistant messages, then the second chat's user,
\* assistant and tool_result messages
C28_Witness ==
    /\ Len(messages) = 5
    /\ messages[2].role = "assistant" /\ messages[2].tool_calls = <<>>
    /\ messages[3].role = "user" /\ messages[3].tool_results = <<>>
    /\ messages[4].tool_calls # <<>>
    /\ messages[5].tool_results # <<>>

\* C30: hook composition is one-shot: once run_agent has constructed the
\* PermissionManager and the Agent, no step of the session (a chat, a
\* permission check, a prompt answer) changes the tool registry or path_based,
\* auto_allow_cwd, auto_allow and reject_prompts
C30_ComposedOnce == [][UNCHANGED <<tools, cfgVars>>]_vars

\* a session composed with a hook has run a tool and kept an 'always' answer,
\* and the registry and the configuration are still what the hook made them
C30_Witness ==
    /\ executed # <<>>
    /\ granted # {}
    /\ tools # get_default_tools
    /\ path_based # DEFAULT_PATH_BASED

\* the stream loop as it runs without the task: the text and the calls
\* accumulated from the events consumed so far
Accumulated(n) ==
    Consume([response_text |-> <<>>, tool_calls |-> <<>>, stop_reason |-> ""],
            SubSeq(stream_events, 1, n))

\* the task acts: it goes from pending to done
PonderActs == pondering_task = "pending" /\ pondering_task' = "done"

\* a step of the stream loop or of the task, with the task pending, done or absent
PonderInert ==
    /\ PonderActs => UNCHANGED <<messages, response_text, tool_calls, sessionVars>>
    /\ pc' = "looping" =>
          /\ response_text' = Accumulated(nevents').response_text
          /\ tool_calls' = Accumulated(nevents').tool_calls
    /\ (pc = "looping" /\ pc' \in {"idle", "executing"}) =>
          /\ messages' = Append(messages,
                                AssistantMessage(Accumulated(Len(stream_events)).response_text,
                                                 Accumulated(Len(stream_events)).tool_calls))
          /\ UNCHANGED sessionVars

\* C29: the pondering task never touches conversation or permission state: when
\* it fires, the log, the accumulated text and calls and the permission session
\* are unchanged, and however it interleaves with the stream loop (fired,
\* cancelled before firing, scheduled again) the accumulated text and calls and
\* the assistant message recorded are those the events alone determine
C29_PonderingInert == [][PonderInert]_vars

\* in the stream loop of a turn that follows an 'always' answer, a second
\* fragment of text has scheduled the task again and the task has fired
C29_Witness ==
    /\ pc = "looping"
    /\ granted # {}
    /\ Len(response_text) = 2
    /\ status = "Pondering..."
    /\ pondering_task = "done"

\* the text fragments of a stream, concatenated in the order of delivery
RECURSIVE TextOf(_)
TextOf(evs) == IF evs = <<>> THEN <<>> ELSE Head(evs).text \o TextOf(Tail(evs))

\* the assistant messages of a log
RECURSIVE Assistants(_)
Assistants(log) ==
    IF log = <<>> THEN 0
    ELSE (IF Head(log).role = "assistant" THEN 1 ELSE 0) + Assistants(Tail(log))

\* a step of chat: the end of a stream records its message, no other step
\* records an assistant message
StreamRecorded ==
    IF pc = "looping" /\ pc' \notin {"looping", "faulted"}
    THEN messages' = Append(messages,
                            AssistantMessage(TextOf(stream_events),
                                             stream_events[Len(stream_events)].tool_calls))
    ELSE Assistants(messages') = Assistants(messages)

\* C31: for every provider stream that is delivered to its end, chat appends
\* exactly one assistant message: its content is the text fragments of the
\* stream concatenated in delivery order, its tool_calls are those of the
\* terminal event, and it is appended also when the content is empty
C31_StreamRecorded == [][StreamRecorded]_vars

\* a chat has recorded a response of two fragments with a call, then a
\* response with no text and no call
C31_Witness ==
    /\ pc = "idle"
    /\ Len(messages) = 4
    /\ messages[2].role = "assistant"
    /\ messages[2].content = Txt \o Txt
    /\ messages[2].tool_calls # <<>>
    /\ messages[4] = AssistantMessage(<<>>, <<>>)

\* the batch is handled in the order received: while call idx is checked or
\* prompted for, the calls before it have their results, in order, the calls
\* of the batch that were executed are calls before it, and the prompt that is
\* open is the prompt for call idx
BatchInOrder ==
    pc \in {"executing", "prompting"} =>
        /\ Len(results) = idx - 1
        /\ \A k \in 1..(idx - 1) : results[k].tool_call_id = tool_calls[k].id
        /\ \A e \in 1..Len(executed) : executed[e][1] = nstream => executed[e][2] < idx
        /\ pending.active =>
              pending.tool = tool_calls[idx].name /\ pending.args = tool_calls[idx].args

\* the check of call idx begins with the grants of the answers before it in force
GrantInForce ==
    (/\ pc = "executing"
     /\ Registered(tool_calls[idx].name)
     /\ GrantScope(tool_calls[idx].name, tool_calls[idx].args) \in granted)
        => pc' # "prompting"

\* the check of call idx begins with allow-all in force when the last prompt
\* was answered with the capital A the prompt offers for it
AllInForce ==
    (/\ pc = "executing"
     /\ Registered(tool_calls[idx].name)
     /\ lastCheck.prompted
     /\ lastCheck.result = "allow"
     /\ Strip(lastCheck.answer) = AnsAll)
        => pc' # "prompting"

\* C32: within one batch the calls are handled one after another in the order
\* received, each call's permission check and execution complete before the
\* next call's check begins, and so a grant made by the answer for call i
\* ('always' or allow-all) is in force for every later call of the batch
C32_BatchSequential == [][BatchInOrder' /\ GrantInForce /\ AllInForce]_vars

\* the session state changes in a step only with the completion of a check
\* whose prompt was answered 'always' or allow-all
SessionByGrantOnly ==
    UNCHANGED sessionVars
    \/ /\ lastCheck' # lastCheck
       /\ lastCheck'.prompted
       /\ lastCheck'.result = "allow"
       /\ PromptBranch(lastCheck'.answer) \in {"always", "all"}

\* the check that follows an 'allow once' answer, for the identical call, is
\* prompted for again
OncePromptsAgain ==
    (/\ lastCheck.prompted
     /\ PromptBranch(lastCheck.answer) = "yes"
     /\ lastCheck' # lastCheck
     /\ lastCheck'.tool = lastCheck.tool
     /\ lastCheck'.args = lastCheck.args)
        => lastCheck'.prompted

\* C33: the session state of the permission engine changes only when a prompt
\* is answered 'always' or allow-all: a check decided without a prompt, an
\* 'allow once' answer, a 'deny' answer and an unrecognised answer leave
\* allowed_tools, allowed_bash_commands, allowed_paths and allow_all unchanged,
\* so an identical call after 'allow once' prompts again
C33_SessionByGrantOnly == [][SessionByGrantOnly /\ OncePromptsAgain]_vars

\* a call was allowed once, and the identical call is being prompted for, the
\* session state being what it was before the first prompt
C33_Witness ==
    /\ lastCheck.prompted
    /\ PromptBranch(lastCheck.answer) = "yes"
    /\ pending.active
    /\ pending.tool = lastCheck.tool
    /\ pending.args = lastCheck.args
    /\ Session = lastCheck.pre

\* the last check returned True at line 96 of permissions.py, and by no line
\* before it: a file tool that is auto-allowed in the working directory, given
\* a path the check resolves to a place inside it
AllowedAsInsideCwd ==
    /\ lastCheck.result = "allow"
    /\ ~lastCheck.prompted
    /\ lastCheck.tool \in {"read_file", "write_file", "edit_file"}
    /\ RequiresPermission(lastCheck.tool)
    /\ ~lastCheck.pre.allow_all
    /\ ~_is_auto_allow(lastCheck.tool)
    /\ _is_path_based(lastCheck.tool)
    /\ lastCheck.tool \in DOMAIN lastCheck.pre.allowed_paths =>
          Resolve(Get(lastCheck.args, "path", <<".">>))
              \notin lastCheck.pre.allowed_paths[lastCheck.tool]
    /\ _is_auto_allow_cwd(lastCheck.tool)
    /\ _is_path_within_cwd(Get(lastCheck.args, "path", <<".">>))

\* C34: a call that check auto-allows because its path is inside the working
\* directory accesses a file inside the working directory: the canonical path
\* the check resolved is the file the tool then opens
C34_CwdAllowStaysInCwd ==
    AllowedAsInsideCwd =>
        /\ Opened(Get(lastCheck.args, "path", <<".">>))
               = Resolve(Get(lastCheck.args, "path", <<".">>))
        /\ IsRelativeTo(Opened(Get(lastCheck.args, "path", <<".">>)), Cwd)

\* C35: in every state reachable from an empty session state, allowed_tools
\* holds neither the shell tool's name nor the name of a path-based tool, the
\* keys of allowed_paths are path-based tools other than the shell tool, and
\* every element of allowed_bash_commands is the command of a bash call that
\* was prompted for
C35_SessionShape ==
    /\ allowed_tools \cap ({BashName} \cup path_based) = {}
    /\ DOMAIN allowed_paths \subseteq path_based \ {BashName}
    /\ \A c \in allowed_bash_commands : <<BashName, "command", c>> \in granted

\* a run that began with an empty session holds a command and a path, each
\* granted at a prompt
C35_Witness ==
    /\ allowed_bash_commands # {}
    /\ DOMAIN allowed_paths = {"write_file"}
    /\ allowed_tools = {}
    /\ Cardinality(granted) = 2

\* C36: whenever chat has returned normally no spinner is active and no
\* pondering task is pending; at every moment at most one pondering task is
\* pending; and while a permission check is waiting at its prompt no pondering
\* task is pending and no spinner is shown
C36_StatusQuiet ==
    /\ pc = "idle" => status = "" /\ pondering_task # "pending" /\ live_tasks = 0
    /\ live_tasks <= 1
    /\ pc = "prompting" => status = "" /\ pondering_task # "pending" /\ live_tasks = 0

\* a chat in which the task fired and a prompt was answered has returned
C36_Witness ==
    /\ pc = "idle"
    /\ Len(messages) >= 4
    /\ pondering_task = "done"
    /\ lastCheck.prompted

\* C37: the permission summary agrees with the permission engine: the three
\* groups listed are pairwise disjoint and cover the registered tools, a tool
\* listed as auto-allow is allowed by check without a prompt, a tool listed as
\* auto-allow in cwd is allowed without a prompt for a path inside the working
\* directory, and a tool listed as requiring permission is prompted for or
\* denied (in the session as it starts, with nothing granted)
C37_SummaryAgrees ==
    /\ auto_all \cap auto_cwd = {} /\ auto_all \cap need_perm = {} /\ auto_cwd \cap need_perm = {}
    /\ auto_all \cup auto_cwd \cup need_perm = tool_names
    /\ pending.active => pending.tool \notin auto_all
    /\ (Done /\ lastCheck.tool \in auto_all) => Silent
    /\ (pending.active /\ pending.tool \in auto_cwd)
          => ~_is_path_within_cwd(Get(pending.args, "path", <<".">>))
    /\ (Done /\ lastCheck.tool \in auto_cwd
             /\ _is_path_within_cwd(Get(lastCheck.args, "path", <<".">>)))
          => Silent
    /\ (Done /\ lastCheck.tool \in need_perm /\ lastCheck.gpre = {})
          => (lastCheck.prompted \/ lastCheck.result = "deny")

\* the backends that synthesize the stop reason of their terminal event
Synthesizing == {"openai_compatible", "google", "ollama"}

\* C38: on the terminal event of every backend that synthesizes its stop
\* reason (OpenAI-compatible, Google, Ollama), stop_reason is "tool_use"
\* exactly when tool_calls is non-empty and "end_turn" otherwise
C38_StopMatchesCalls ==
    provider \in Synthesizing =>
       \A i \in TerminalAt :
          trace[i].event.stop_reason =
             IF trace[i].event.tool_calls # <<>> THEN "tool_use" ELSE "end_turn"

\* the roles of the log alternate, starting with user
Alternates(log) ==
    \A i \in 1..Len(log) : log[i].role = IF i % 2 = 1 THEN "user" ELSE "assistant"

\* C39: after any sequence of chat calls that each returned normally, the
\* message log strictly alternates roles starting with user, its last message
\* is an assistant message with no tool_calls, and the number of assistant
\* messages equals the number of provider requests made
C39_LogAlternates ==
    pc = "idle" =>
       /\ Alternates(messages)
       /\ messages # <<>> =>
             /\ messages[Len(messages)].role = "assistant"
             /\ messages[Len(messages)].tool_calls = <<>>
       /\ Assistants(messages) = nstream

\* a chat that made two provider requests, with a batch of tools run between
\* them, has returned
C39_Witness ==
    /\ pc = "idle"
    /\ Len(messages) = 4
    /\ messages[2].tool_calls # <<>>
    /\ messages[3].tool_results # <<>>
    /\ nstream = 2

\* the same hooks listed with the i-th and the next exchanged; every ordering
\* of a list is reached by such exchanges
Exchanged(hooks, i) ==
    [k \in 1..Len(hooks) |->
        IF k = i THEN hooks[i + 1] ELSE IF k = i + 1 THEN hooks[i] ELSE hooks[k]]

\* the names of a registry
NamesOf(ts) == {ts[k] : k \in 1..Len(ts)}

\* C40: the outcome of hook composition in run_agent does not depend on the
\* order in which the same hooks are listed: the set of registered tool names,
\* the path_based, auto_allow_cwd and auto_allow sets and reject_prompts are
\* the same for every ordering, and a tool named in any loaded hook's
\* REMOVE_TOOLS is absent from the registry handed to the Agent
C40_OrderIndependent ==
    /\ \A i \in 1..(Len(loaded_hooks) - 1) :
          /\ NamesOf(ComposeTools(get_default_tools, Exchanged(loaded_hooks, i))) = tool_names
          /\ ComposeConfig(DefaultConfig, Exchanged(loaded_hooks, i))
                = [path_based |-> path_based, auto_allow_cwd |-> auto_allow_cwd,
                   auto_allow |-> auto_allow, reject_prompts |-> reject_prompts]
    /\ \A i \in 1..Len(loaded_hooks) :
          "REMOVE_TOOLS" \in loaded_hooks[i].attrs
             => loaded_hooks[i].REMOVE_TOOLS \cap tool_names = {}

====
